---- MODULE Spec2Model ----
(***************************************************************************)
(* Model of the event simplification pipeline of donkey_see_donkey_do:     *)
(* the event classes of events.py that the pipeline touches, the pairwise  *)
(* mergers and passes of simplify.py, the fold merge_consecutive_events    *)
(* and the driver run_simplifiers.                                         *)
(*                                                                         *)
(* Events are Python objects: the model keeps them in a heap (heap.obj),   *)
(* addressed by their index, so that a copy, an in-place update and an     *)
(* alias are different things.  The key list of a WriteEvent is an object  *)
(* of its own (heap.keys), shared by a shallow copy and duplicated by a    *)
(* deep one.                                                               *)
(*                                                                         *)
(* Time is counted in ticks of 50 ms, which makes every default threshold  *)
(* of simplify.py an integer.  Distances are Euclidean; they are compared  *)
(* by their squares, the coordinates being integers.                       *)
(***************************************************************************)
EXTENDS Integers, Sequences, FiniteSets, TLC

VARIABLES
    simplifiers,    \* run_simplifiers: the list of passes to apply
    input,          \* the values of the input events, as constructed
    heap,           \* the objects: [obj: event records, keys: key lists]
    events,         \* run_simplifiers: `events`, [ref, items]
    pidx,           \* run_simplifiers: position in `simplifiers`
    pc,             \* "run", "fold", "done", "raised"; "update", "events"
    final_events,   \* merge_consecutive_events: the accumulator
    i,              \* merge_consecutive_events: position of `event` in events
    j,              \* merge_consecutive_events: position of `merger`
    calls,          \* the merger calls made for the pair being compared
    ncalls,         \* number of merger calls made so far
    nmerges,        \* number of calls that returned a single event so far
    src,            \* per accumulator position, the input positions folded in
    err             \* the exception raised, "" when none

vars == <<simplifiers, input, heap, events, pidx, pc, final_events, i, j,
          calls, ncalls, nmerges, src, err>>

----------------------------------------------------------------------------
(* Bounds of the model *)

MaxLen == 3
MaxPipelineLen == 4
MaxTime == 3
MaxUpdates == 2
MaxObjects == 3
MaxCalls == 3

----------------------------------------------------------------------------
(* Small helpers *)

Min2(a, b) == IF a <= b THEN a ELSE b
Max2(a, b) == IF a >= b THEN a ELSE b

RECURSIVE SetMax(_)
SetMax(S) ==
    LET x == CHOOSE y \in S : TRUE
    IN  IF S = {x} THEN x ELSE Max2(x, SetMax(S \ {x}))

RECURSIVE SetMin(_)
SetMin(S) ==
    LET x == CHOOSE y \in S : TRUE
    IN  IF S = {x} THEN x ELSE Min2(x, SetMin(S \ {x}))

RECURSIVE SetSum(_, _)
SetSum(S, f) ==
    IF S = {} THEN 0
    ELSE LET x == CHOOSE y \in S : TRUE
         IN  f[x] + SetSum(S \ {x}, f)

Last(s) == s[Len(s)]

SeqsUpTo(A, n) == UNION {[1..k -> A] : k \in 0..n}

----------------------------------------------------------------------------
(* events.py: the event classes.  One record shape serves every class; a   *)
(* field a class does not have holds its neutral value.                    *)

NoneT == 0 - 1      \* None, for an Optional[datetime]
NoShot == 0         \* None, for the screenshot

Blank ==
    [cls |-> "BaseEvent", timestamp |-> 0, screenshot |-> NoShot,
     device |-> "", location |-> <<0, 0>>, action |-> "", button |-> "",
     n_clicks |-> 0, last_timestamp |-> NoneT, scroll |-> <<0, 0>>,
     key |-> "", keys |-> <<>>]

StateSnapshotEvent(t, shot, loc) ==
    [Blank EXCEPT !.cls = "StateSnapshotEvent", !.timestamp = t,
                  !.screenshot = shot, !.device = "state", !.location = loc]

MouseButtonEvent(t, shot, loc, action, button) ==
    [Blank EXCEPT !.cls = "MouseButtonEvent", !.timestamp = t,
                  !.screenshot = shot, !.device = "mouse", !.location = loc,
                  !.action = action, !.button = button]

ClickEvent(t, shot, loc, button, n, last) ==
    [Blank EXCEPT !.cls = "ClickEvent", !.timestamp = t, !.screenshot = shot,
                  !.device = "mouse", !.location = loc, !.action = "click",
                  !.button = button, !.n_clicks = n, !.last_timestamp = last]

ScrollEvent(t, shot, loc, sc, last) ==
    [Blank EXCEPT !.cls = "ScrollEvent", !.timestamp = t, !.screenshot = shot,
                  !.device = "mouse", !.location = loc, !.action = "scroll",
                  !.scroll = sc, !.last_timestamp = last]

KeyboardEvent(t, shot, action, key) ==
    [Blank EXCEPT !.cls = "KeyboardEvent", !.timestamp = t,
                  !.screenshot = shot, !.device = "keyboard",
                  !.action = action, !.key = key]

\* keys is the key list itself in an event value; in a heap record it is the
\* index of the key list object (0 for a class without keys).
WriteEvent(t, shot, keys, last) ==
    [Blank EXCEPT !.cls = "WriteEvent", !.timestamp = t, !.screenshot = shot,
                  !.device = "keyboard", !.action = "write", !.keys = keys,
                  !.last_timestamp = last]

IsStateSnapshotEvent(e) == e.cls = "StateSnapshotEvent"
IsMouseButtonEvent(e) == e.cls \in {"MouseButtonEvent", "ClickEvent"}
IsClickEvent(e) == e.cls = "ClickEvent"
IsScrollEvent(e) == e.cls = "ScrollEvent"
IsKeyboardEvent(e) == e.cls = "KeyboardEvent"
IsWriteEvent(e) == e.cls = "WriteEvent"

\* Variant: the start of the event is taken for its end.
TimestampOnly(e) == e.timestamp

\* BaseEvent.last_timestamp_or_first, overridden by ClickEvent, ScrollEvent
\* and WriteEvent: `self.last_timestamp or self.timestamp`.
LastTimestampOrFirst(e) ==
    IF e.cls \in {"ClickEvent", "ScrollEvent", "WriteEvent"}
       /\ e.last_timestamp # NoneT
    THEN e.last_timestamp
    ELSE e.timestamp

\* Point.distance_to, squared.
DistanceSquared(p, q) ==
    (p[1] - q[1]) * (p[1] - q[1]) + (p[2] - q[2]) * (p[2] - q[2])

\* Variant: the pixel threshold is exclusive.
WithinPixelsExclusive(p, q, max_pixels) ==
    DistanceSquared(p, q) < max_pixels * max_pixels

WithinPixels(p, q, max_pixels) ==
    ~ (DistanceSquared(p, q) > max_pixels * max_pixels)

----------------------------------------------------------------------------
(* The heap *)

EmptyHeap == [obj |-> <<>>, keys |-> <<>>]

\* The value of the object id: the record with its key list in place of the
\* reference to it.
Value(h, id) ==
    IF h.obj[id].cls = "WriteEvent"
    THEN [h.obj[id] EXCEPT !.keys = h.keys[h.obj[id].keys]]
    ELSE [h.obj[id] EXCEPT !.keys = <<>>]

Values(h, ids) == [k \in 1..Len(ids) |-> Value(h, ids[k])]

\* Constructing an event: a new object, and a new key list for a WriteEvent.
New(h, v) ==
    IF v.cls = "WriteEvent"
    THEN [heap |-> [obj  |-> Append(h.obj, [v EXCEPT !.keys = Len(h.keys) + 1]),
                    keys |-> Append(h.keys, v.keys)],
          id |-> Len(h.obj) + 1]
    ELSE [heap |-> [h EXCEPT !.obj = Append(@, [v EXCEPT !.keys = 0])],
          id |-> Len(h.obj) + 1]

\* Variant: no copy is made, the original is handed on.
CopyAliased(h, id) == [heap |-> h, id |-> id]

\* BaseModel.copy(): a new object with the same field values; a key list is
\* shared with the original.
Copy(h, id) ==
    [heap |-> [h EXCEPT !.obj = Append(@, h.obj[id])], id |-> Len(h.obj) + 1]

\* BaseModel.copy(deep=True): the key list is duplicated too.
DeepCopy(h, id) == New(h, Value(h, id))

----------------------------------------------------------------------------
(* events.py: the helpers the mergers use.  update_with changes the object *)
(* it is called on and returns nothing; the operators return the heap      *)
(* after the call.                                                         *)

\* Variant: the new Click takes the action of the given event as well.
ClickEvent_from_mouse_button_event_keeping_action(h, id) ==
    IF IsClickEvent(h.obj[id])
    THEN Copy(h, id)
    ELSE New(h, [ClickEvent(h.obj[id].timestamp, h.obj[id].screenshot,
                            h.obj[id].location, h.obj[id].button, 1, NoneT)
                    EXCEPT !.action = h.obj[id].action])

\* Variant: the screenshot is not handed to the new Click.
ClickEvent_from_mouse_button_event_without_screenshot(h, id) ==
    IF IsClickEvent(h.obj[id])
    THEN Copy(h, id)
    ELSE New(h, ClickEvent(h.obj[id].timestamp, NoShot,
                           h.obj[id].location, h.obj[id].button, 1, NoneT))

\* ClickEvent.from_mouse_button_event
ClickEvent_from_mouse_button_event(h, id) ==
    IF IsClickEvent(h.obj[id])
    THEN Copy(h, id)
    ELSE New(h, ClickEvent(h.obj[id].timestamp, h.obj[id].screenshot,
                           h.obj[id].location, h.obj[id].button, 1, NoneT))

\* Variant: the Write is created and the key is not appended.
WriteEvent_from_keyboard_event_no_key(h, id) ==
    LET r == New(h, WriteEvent(h.obj[id].timestamp, h.obj[id].screenshot,
                               <<>>, NoneT))
    IN  [heap |-> r.heap, id |-> r.id]

\* WriteEvent.from_keyboard_event: a WriteEvent with a fresh, empty key list,
\* to which the key is appended.
WriteEvent_from_keyboard_event(h, id) ==
    LET r == New(h, WriteEvent(h.obj[id].timestamp, h.obj[id].screenshot,
                               <<>>, NoneT))
        k == r.heap.obj[r.id].keys
    IN  [heap |-> [r.heap EXCEPT !.keys[k] = Append(@, h.obj[id].key)],
         id |-> r.id]

\* Variant: the sums and times are stored in the other event.
ClickEvent_update_with_updating_other(h, self, other) ==
    LET s == h.obj[self]
        o == h.obj[other]
        options_for_last_timestamp ==
            {s.timestamp, o.timestamp}
                \cup (IF s.last_timestamp # NoneT THEN {s.last_timestamp} ELSE {})
                \cup (IF o.last_timestamp # NoneT THEN {o.last_timestamp} ELSE {})
    IN  [h EXCEPT !.obj[other] =
            [o EXCEPT !.n_clicks = s.n_clicks + o.n_clicks,
                      !.last_timestamp = SetMax(options_for_last_timestamp),
                      !.timestamp = Min2(s.timestamp, o.timestamp)]]

\* Variant: the other event counts as one click whatever its n_clicks.
ClickEvent_update_with_counting(h, self, other) ==
    LET s == h.obj[self]
        o == h.obj[other]
        options_for_last_timestamp ==
            {s.timestamp, o.timestamp}
                \cup (IF s.last_timestamp # NoneT THEN {s.last_timestamp} ELSE {})
                \cup (IF o.last_timestamp # NoneT THEN {o.last_timestamp} ELSE {})
    IN  [h EXCEPT !.obj[self] =
            [s EXCEPT !.n_clicks = s.n_clicks + 1,
                      !.last_timestamp = SetMax(options_for_last_timestamp),
                      !.timestamp = Min2(s.timestamp, o.timestamp)]]

\* ClickEvent.update_with
ClickEvent_update_with(h, self, other) ==
    LET s == h.obj[self]
        o == h.obj[other]
        new_timestamp == Min2(s.timestamp, o.timestamp)
        options_for_last_timestamp ==
            {s.timestamp, o.timestamp}
                \cup (IF s.last_timestamp # NoneT THEN {s.last_timestamp} ELSE {})
                \cup (IF o.last_timestamp # NoneT THEN {o.last_timestamp} ELSE {})
    IN  [h EXCEPT !.obj[self] =
            [s EXCEPT !.n_clicks = s.n_clicks + o.n_clicks,
                      !.last_timestamp = SetMax(options_for_last_timestamp),
                      !.timestamp = new_timestamp]]

\* Variant: the timestamps are options for last_timestamp only when
\* neither event has a last_timestamp.
ScrollEvent_update_with_ends_only(h, self, other) ==
    LET s == h.obj[self]
        o == h.obj[other]
        ends == {s.last_timestamp, o.last_timestamp} \ {NoneT}
        options_for_last_timestamp ==
            IF ends = {} THEN {s.timestamp, o.timestamp} ELSE ends
    IN  [h EXCEPT !.obj[self] =
            [s EXCEPT !.scroll = <<s.scroll[1] + o.scroll[1],
                                   s.scroll[2] + o.scroll[2]>>,
                      !.last_timestamp = SetMax(options_for_last_timestamp),
                      !.timestamp = Min2(s.timestamp, o.timestamp)]]

\* Variant: last_timestamp as the docstring has it, the event's own
\* timestamp not being among the options.
ScrollEvent_update_with_as_documented(h, self, other) ==
    LET s == h.obj[self]
        o == h.obj[other]
        options_for_last_timestamp ==
            {o.timestamp}
                \cup (IF s.last_timestamp # NoneT THEN {s.last_timestamp} ELSE {})
                \cup (IF o.last_timestamp # NoneT THEN {o.last_timestamp} ELSE {})
    IN  [h EXCEPT !.obj[self] =
            [s EXCEPT !.scroll = <<s.scroll[1] + o.scroll[1],
                                   s.scroll[2] + o.scroll[2]>>,
                      !.last_timestamp = SetMax(options_for_last_timestamp),
                      !.timestamp = Min2(s.timestamp, o.timestamp)]]

\* ScrollEvent.update_with
ScrollEvent_update_with(h, self, other) ==
    LET s == h.obj[self]
        o == h.obj[other]
        new_timestamp == Min2(s.timestamp, o.timestamp)
        options_for_last_timestamp ==
            {s.timestamp, o.timestamp}
                \cup (IF s.last_timestamp # NoneT THEN {s.last_timestamp} ELSE {})
                \cup (IF o.last_timestamp # NoneT THEN {o.last_timestamp} ELSE {})
    IN  [h EXCEPT !.obj[self] =
            [s EXCEPT !.scroll = <<s.scroll[1] + o.scroll[1],
                                   s.scroll[2] + o.scroll[2]>>,
                      !.last_timestamp = SetMax(options_for_last_timestamp),
                      !.timestamp = new_timestamp]]

\* Variant: the other event's last_timestamp is not among the options.
WriteEvent_update_with_ignoring_other_end(h, self, other) ==
    LET s == h.obj[self]
        o == h.obj[other]
        options_for_last_timestamp ==
            {s.timestamp, o.timestamp}
                \cup (IF s.last_timestamp # NoneT THEN {s.last_timestamp} ELSE {})
    IN  [obj  |-> [h.obj EXCEPT ![self] =
                      [s EXCEPT !.last_timestamp = SetMax(options_for_last_timestamp),
                                !.timestamp = Min2(s.timestamp, o.timestamp)]],
         keys |-> [h.keys EXCEPT ![s.keys] = @ \o h.keys[o.keys]]]

\* Variant: the other event's keys are put in front of the event's own.
WriteEvent_update_with_prepending(h, self, other) ==
    LET s == h.obj[self]
        o == h.obj[other]
        options_for_last_timestamp ==
            {s.timestamp, o.timestamp}
                \cup (IF s.last_timestamp # NoneT THEN {s.last_timestamp} ELSE {})
                \cup (IF o.last_timestamp # NoneT THEN {o.last_timestamp} ELSE {})
    IN  [obj  |-> [h.obj EXCEPT ![self] =
                      [s EXCEPT !.last_timestamp = SetMax(options_for_last_timestamp),
                                !.timestamp = Min2(s.timestamp, o.timestamp)]],
         keys |-> [h.keys EXCEPT ![s.keys] = h.keys[o.keys] \o @]]

\* WriteEvent.update_with: keys.extend works on the key list object.
WriteEvent_update_with(h, self, other) ==
    LET s == h.obj[self]
        o == h.obj[other]
        new_timestamp == Min2(s.timestamp, o.timestamp)
        options_for_last_timestamp ==
            {s.timestamp, o.timestamp}
                \cup (IF s.last_timestamp # NoneT THEN {s.last_timestamp} ELSE {})
                \cup (IF o.last_timestamp # NoneT THEN {o.last_timestamp} ELSE {})
    IN  [obj  |-> [h.obj EXCEPT ![self] =
                      [s EXCEPT !.last_timestamp = SetMax(options_for_last_timestamp),
                                !.timestamp = new_timestamp]],
         keys |-> [h.keys EXCEPT ![s.keys] = @ \o h.keys[o.keys]]]

\* math.copysign(1, x) for an integer x: the sign of x, zero counting as
\* positive.
CopySign(x) == IF x < 0 THEN 0 - 1 ELSE 1

----------------------------------------------------------------------------
(* simplify.py: the pairwise mergers.  Each takes the heap and the two     *)
(* events and returns the heap after the call and the list it returns.     *)

Unmerged(h, a, b) == [heap |-> h, result |-> <<a, b>>]

\* Variant: one snapshot among the two is enough to drop the first event.
drop_consecutive_state_snapshots_1_either(h, first_event, second_event) ==
    IF IsStateSnapshotEvent(h.obj[first_event])
       \/ IsStateSnapshotEvent(h.obj[second_event])
    THEN [heap |-> h, result |-> <<second_event>>]
    ELSE Unmerged(h, first_event, second_event)

\* Variant: of two snapshots the first is kept.
drop_consecutive_state_snapshots_1_first(h, first_event, second_event) ==
    IF IsStateSnapshotEvent(h.obj[first_event])
       /\ IsStateSnapshotEvent(h.obj[second_event])
    THEN [heap |-> h, result |-> <<first_event>>]
    ELSE Unmerged(h, first_event, second_event)

drop_consecutive_state_snapshots_1(h, first_event, second_event) ==
    IF IsStateSnapshotEvent(h.obj[first_event])
       /\ IsStateSnapshotEvent(h.obj[second_event])
    THEN [heap |-> h, result |-> <<second_event>>]
    ELSE Unmerged(h, first_event, second_event)

\* Variant: the time threshold is exclusive.
merge_consecutive_mouse_press_then_release_to_click_exclusive(h, first_event, second_event, max_seconds, max_pixels) ==
    IF ~ IsMouseButtonEvent(h.obj[first_event])
       \/ ~ IsMouseButtonEvent(h.obj[second_event])
    THEN Unmerged(h, first_event, second_event)
    ELSE
      LET swap == h.obj[first_event].timestamp > h.obj[second_event].timestamp
          f == IF swap THEN second_event ELSE first_event
          s == IF swap THEN first_event ELSE second_event
      IN  IF \/ h.obj[f].button # h.obj[s].button
             \/ h.obj[f].action # "press"
             \/ h.obj[s].action # "release"
             \/ h.obj[s].timestamp - LastTimestampOrFirst(h.obj[f]) >= max_seconds
             \/ ~ WithinPixels(h.obj[f].location, h.obj[s].location, max_pixels)
          THEN Unmerged(h, f, s)
          ELSE LET r == ClickEvent_from_mouse_button_event(h, f)
               IN  [heap |-> r.heap, result |-> <<r.id>>]

merge_consecutive_mouse_press_then_release_to_click(h, first_event, second_event, max_seconds, max_pixels) ==
    IF ~ IsMouseButtonEvent(h.obj[first_event])
       \/ ~ IsMouseButtonEvent(h.obj[second_event])
    THEN Unmerged(h, first_event, second_event)
    ELSE
      LET swap == h.obj[first_event].timestamp > h.obj[second_event].timestamp
          f == IF swap THEN second_event ELSE first_event
          s == IF swap THEN first_event ELSE second_event
      IN  IF \/ h.obj[f].button # h.obj[s].button
             \/ h.obj[f].action # "press"
             \/ h.obj[s].action # "release"
             \/ h.obj[s].timestamp - LastTimestampOrFirst(h.obj[f]) > max_seconds
             \/ ~ WithinPixels(h.obj[f].location, h.obj[s].location, max_pixels)
          THEN Unmerged(h, f, s)
          ELSE LET r == ClickEvent_from_mouse_button_event(h, f)
               IN  [heap |-> r.heap, result |-> <<r.id>>]

\* Variant: the copy updated is one of the second event, not of the first.
merge_consecutive_mouse_clicks_to_multi_click_into_second(h, first_event, second_event, max_seconds, max_pixels) ==
    IF ~ IsMouseButtonEvent(h.obj[first_event])
       \/ ~ IsMouseButtonEvent(h.obj[second_event])
    THEN Unmerged(h, first_event, second_event)
    ELSE
      LET swap == h.obj[first_event].timestamp > h.obj[second_event].timestamp
          f == IF swap THEN second_event ELSE first_event
          s == IF swap THEN first_event ELSE second_event
      IN  IF \/ h.obj[f].button # h.obj[s].button
             \/ h.obj[f].action # "click"
             \/ h.obj[s].action # "click"
             \/ h.obj[s].timestamp - LastTimestampOrFirst(h.obj[f]) > max_seconds
             \/ ~ WithinPixels(h.obj[f].location, h.obj[s].location, max_pixels)
          THEN Unmerged(h, f, s)
          ELSE
            LET r1 == IF IsClickEvent(h.obj[f])
                      THEN [heap |-> h, id |-> f]
                      ELSE ClickEvent_from_mouse_button_event(h, f)
                r2 == IF IsClickEvent(h.obj[s])
                      THEN [heap |-> r1.heap, id |-> s]
                      ELSE ClickEvent_from_mouse_button_event(r1.heap, s)
                r3 == Copy(r2.heap, r2.id)
            IN  [heap |-> ClickEvent_update_with(r3.heap, r3.id, r1.id),
                 result |-> <<r3.id>>]

merge_consecutive_mouse_clicks_to_multi_click(h, first_event, second_event, max_seconds, max_pixels) ==
    IF ~ IsMouseButtonEvent(h.obj[first_event])
       \/ ~ IsMouseButtonEvent(h.obj[second_event])
    THEN Unmerged(h, first_event, second_event)
    ELSE
      LET swap == h.obj[first_event].timestamp > h.obj[second_event].timestamp
          f == IF swap THEN second_event ELSE first_event
          s == IF swap THEN first_event ELSE second_event
      IN  IF \/ h.obj[f].button # h.obj[s].button
             \/ h.obj[f].action # "click"
             \/ h.obj[s].action # "click"
             \/ h.obj[s].timestamp - LastTimestampOrFirst(h.obj[f]) > max_seconds
             \/ ~ WithinPixels(h.obj[f].location, h.obj[s].location, max_pixels)
          THEN Unmerged(h, f, s)
          ELSE
            LET r1 == IF IsClickEvent(h.obj[f])
                      THEN [heap |-> h, id |-> f]
                      ELSE ClickEvent_from_mouse_button_event(h, f)
                r2 == IF IsClickEvent(h.obj[s])
                      THEN [heap |-> r1.heap, id |-> s]
                      ELSE ClickEvent_from_mouse_button_event(r1.heap, s)
                r3 == Copy(r2.heap, r1.id)
            IN  [heap |-> ClickEvent_update_with(r3.heap, r3.id, r2.id),
                 result |-> <<r3.id>>]

merge_consecutive_key_press_then_release_to_write(h, first_event, second_event, max_seconds) ==
    IF ~ IsKeyboardEvent(h.obj[first_event])
       \/ ~ IsKeyboardEvent(h.obj[second_event])
    THEN Unmerged(h, first_event, second_event)
    ELSE
      LET swap == h.obj[first_event].timestamp > h.obj[second_event].timestamp
          f == IF swap THEN second_event ELSE first_event
          s == IF swap THEN first_event ELSE second_event
      IN  IF \/ h.obj[s].timestamp - LastTimestampOrFirst(h.obj[f]) > max_seconds
             \/ h.obj[f].key # h.obj[s].key
             \/ h.obj[f].action # "press"
             \/ h.obj[s].action # "release"
          THEN Unmerged(h, f, s)
          ELSE LET r == WriteEvent_from_keyboard_event(h, f)
               IN  [heap |-> r.heap, result |-> <<r.id>>]

merge_consecutive_write_events_1(h, first_event, second_event, max_seconds) ==
    IF ~ IsWriteEvent(h.obj[first_event]) \/ ~ IsWriteEvent(h.obj[second_event])
    THEN Unmerged(h, first_event, second_event)
    ELSE
      LET swap == h.obj[first_event].timestamp > h.obj[second_event].timestamp
          f == IF swap THEN second_event ELSE first_event
          s == IF swap THEN first_event ELSE second_event
      IN  IF h.obj[s].timestamp - LastTimestampOrFirst(h.obj[f]) > max_seconds
          THEN Unmerged(h, f, s)
          ELSE LET r == DeepCopy(h, f)
               IN  [heap |-> WriteEvent_update_with(r.heap, r.id, s),
                    result |-> <<r.id>>]

\* Variant: one compatible axis is enough to merge.
merge_consecutive_scroll_events_any_axis(h, first_event, second_event, max_seconds, max_pixels, merge_opposite_directions) ==
    IF ~ IsScrollEvent(h.obj[first_event]) \/ ~ IsScrollEvent(h.obj[second_event])
    THEN Unmerged(h, first_event, second_event)
    ELSE
      LET swap == h.obj[first_event].timestamp > h.obj[second_event].timestamp
          f == IF swap THEN second_event ELSE first_event
          s == IF swap THEN first_event ELSE second_event
          x_is_compatible ==
              \/ h.obj[f].scroll[1] = 0
              \/ h.obj[s].scroll[1] = 0
              \/ CopySign(h.obj[f].scroll[1]) = CopySign(h.obj[s].scroll[1])
          y_is_compatible ==
              \/ h.obj[f].scroll[2] = 0
              \/ h.obj[s].scroll[2] = 0
              \/ CopySign(h.obj[f].scroll[2]) = CopySign(h.obj[s].scroll[2])
      IN  IF \/ h.obj[s].timestamp - LastTimestampOrFirst(h.obj[f]) > max_seconds
             \/ ~ WithinPixels(h.obj[f].location, h.obj[s].location, max_pixels)
          THEN Unmerged(h, f, s)
          ELSE IF merge_opposite_directions
                  \/ (x_is_compatible \/ y_is_compatible)
          THEN LET r == Copy(h, f)
               IN  [heap |-> ScrollEvent_update_with(r.heap, r.id, s),
                    result |-> <<r.id>>]
          ELSE Unmerged(h, f, s)

merge_consecutive_scroll_events(h, first_event, second_event, max_seconds, max_pixels, merge_opposite_directions) ==
    IF ~ IsScrollEvent(h.obj[first_event]) \/ ~ IsScrollEvent(h.obj[second_event])
    THEN Unmerged(h, first_event, second_event)
    ELSE
      LET swap == h.obj[first_event].timestamp > h.obj[second_event].timestamp
          f == IF swap THEN second_event ELSE first_event
          s == IF swap THEN first_event ELSE second_event
          x_is_compatible ==
              \/ h.obj[f].scroll[1] = 0
              \/ h.obj[s].scroll[1] = 0
              \/ CopySign(h.obj[f].scroll[1]) = CopySign(h.obj[s].scroll[1])
          y_is_compatible ==
              \/ h.obj[f].scroll[2] = 0
              \/ h.obj[s].scroll[2] = 0
              \/ CopySign(h.obj[f].scroll[2]) = CopySign(h.obj[s].scroll[2])
      IN  IF \/ h.obj[s].timestamp - LastTimestampOrFirst(h.obj[f]) > max_seconds
             \/ ~ WithinPixels(h.obj[f].location, h.obj[s].location, max_pixels)
          THEN Unmerged(h, f, s)
          ELSE IF merge_opposite_directions
                  \/ (x_is_compatible /\ y_is_compatible)
          THEN LET r == Copy(h, f)
               IN  [heap |-> ScrollEvent_update_with(r.heap, r.id, s),
                    result |-> <<r.id>>]
          ELSE Unmerged(h, f, s)

----------------------------------------------------------------------------
(* simplify.py: the passes.  A merger of a list is described by the rule   *)
(* it applies and the thresholds its lambda binds; a simplifier by its     *)
(* name, its merger list, and whether it is a pass over a sequence at all. *)

\* Default thresholds, in ticks of 50 ms and in pixels.
PressReleaseMaxSeconds == 4     \* 0.2 s
MultiClickMaxSeconds == 8       \* 0.4 s
KeyWriteMaxSeconds == 3         \* 0.15 s
WriteMergeMaxSeconds == 20      \* 1 s
ScrollMaxSeconds == 60          \* 3 s
DefaultMaxPixels == 5

Merger(rule, max_seconds, max_pixels, merge_opposite_directions) ==
    [rule |-> rule, max_seconds |-> max_seconds, max_pixels |-> max_pixels,
     merge_opposite_directions |-> merge_opposite_directions]

\* merger(first_event, second_event) for a merger of a list.
CallMergerFunction(m, h, a, b) ==
    CASE m.rule = "drop_consecutive_state_snapshots_1" ->
            drop_consecutive_state_snapshots_1(h, a, b)
      [] m.rule = "merge_consecutive_mouse_press_then_release_to_click" ->
            merge_consecutive_mouse_press_then_release_to_click(
                h, a, b, m.max_seconds, m.max_pixels)
      [] m.rule = "merge_consecutive_mouse_clicks_to_multi_click" ->
            merge_consecutive_mouse_clicks_to_multi_click(
                h, a, b, m.max_seconds, m.max_pixels)
      [] m.rule = "merge_consecutive_key_press_then_release_to_write" ->
            merge_consecutive_key_press_then_release_to_write(
                h, a, b, m.max_seconds)
      [] m.rule = "merge_consecutive_write_events_1" ->
            merge_consecutive_write_events_1(h, a, b, m.max_seconds)
      [] m.rule = "merge_consecutive_scroll_events" ->
            merge_consecutive_scroll_events(
                h, a, b, m.max_seconds, m.max_pixels,
                m.merge_opposite_directions)

\* merge_consecutive_events called with a merger list of the caller's.
merge_consecutive_events(event_mergers) ==
    [name |-> "merge_consecutive_events", pass |-> TRUE,
     mergers |-> event_mergers]

drop_consecutive_state_snapshots ==
    [name |-> "drop_consecutive_state_snapshots", pass |-> TRUE,
     mergers |-> <<Merger("drop_consecutive_state_snapshots_1", 0, 0, FALSE)>>]

convert_mouse_press_then_release_to_click(max_seconds, max_pixels) ==
    [name |-> "convert_mouse_press_then_release_to_click", pass |-> TRUE,
     mergers |-> <<Merger("merge_consecutive_mouse_press_then_release_to_click",
                          max_seconds, max_pixels, FALSE)>>]

convert_mouse_clicks_to_multi_click(max_seconds, max_pixels) ==
    [name |-> "convert_mouse_clicks_to_multi_click", pass |-> TRUE,
     mergers |-> <<Merger("merge_consecutive_mouse_clicks_to_multi_click",
                          max_seconds, max_pixels, FALSE)>>]

convert_key_press_then_release_to_write(max_seconds) ==
    [name |-> "convert_key_press_then_release_to_write", pass |-> TRUE,
     mergers |-> <<Merger("merge_consecutive_key_press_then_release_to_write",
                          max_seconds, 0, FALSE)>>]

merge_consecutive_write_events(max_seconds) ==
    [name |-> "merge_consecutive_write_events", pass |-> TRUE,
     mergers |-> <<Merger("merge_consecutive_write_events_1",
                          max_seconds, 0, FALSE)>>]

\* The sixth entry of ALL_SIMPLIFIERS is the pairwise scroll merger itself:
\* a function of two events, not a pass over a sequence.
merge_consecutive_scroll_events_as_simplifier ==
    [name |-> "merge_consecutive_scroll_events", pass |-> FALSE,
     mergers |-> <<>>]

ALL_SIMPLIFIERS ==
    << drop_consecutive_state_snapshots,
       convert_mouse_press_then_release_to_click(PressReleaseMaxSeconds,
                                                 DefaultMaxPixels),
       convert_mouse_clicks_to_multi_click(MultiClickMaxSeconds,
                                           DefaultMaxPixels),
       convert_key_press_then_release_to_write(KeyWriteMaxSeconds),
       merge_consecutive_write_events(WriteMergeMaxSeconds),
       merge_consecutive_scroll_events_as_simplifier >>

----------------------------------------------------------------------------
(* simplify.py: the steps of merge_consecutive_events                      *)

\* Variant: only the empty sequence is returned as it is.
TrivialInputEmptyOnly(items) == Len(items) < 1

\* `if len(events) < 2: return events`
TrivialInput(items) == Len(items) < 2

\* Variant: the event is compared with the first accumulated event.
AccumulatorFirst(acc) == 1

\* `final_events[-1]`: the position the next event is compared with.
AccumulatorLast(acc) == Len(acc)

\* Variant: the mergers are tried from the end of the list.
MergerAtReversed(event_mergers, k) == event_mergers[Len(event_mergers) + 1 - k]

\* `for merger in event_mergers`: the k-th merger tried.
MergerAt(event_mergers, k) == event_mergers[k]

\* `if len(result_events) == 1`
IsMerged(result_events) == Len(result_events) = 1

\* `final_events[-1] = result_events[0]`
ReplaceLast(acc, id) == [acc EXCEPT ![AccumulatorLast(acc)] = id]

\* Variant: an unmerged event is not kept.
AppendEventLost(acc, id) == acc

\* `final_events.append(event)`
AppendEvent(acc, id) == Append(acc, id)

\* Events.from_iterable: a new Events object holding the listed events.
Events_from_iterable(ids, ref) == [ref |-> ref, items |-> ids]

----------------------------------------------------------------------------
(* The inputs: sequences of well-formed events over a small alphabet per   *)
(* family of rules, chosen so that every threshold is met exactly, missed  *)
(* by one tick or pixel, and so that events of other classes separate      *)
(* mergeable ones.  Sequences need not be in chronological order.          *)

MouseAlphabet ==
    { MouseButtonEvent(0, 1, <<0, 0>>, "press", "left"),
      MouseButtonEvent(4, 2, <<3, 4>>, "release", "left"),
      MouseButtonEvent(5, 0, <<0, 0>>, "release", "left"),
      MouseButtonEvent(1, 0, <<1, 5>>, "release", "left"),
      MouseButtonEvent(2, 0, <<0, 0>>, "release", "right"),
      MouseButtonEvent(6, 0, <<0, 0>>, "click", "left"),
      MouseButtonEvent(7, 0, <<0, 0>>, "click", "right"),
      ClickEvent(12, 1, <<3, 4>>, "left", 2, 14),
      ClickEvent(22, 0, <<0, 5>>, "left", 1, NoneT),
      ClickEvent(21, 0, <<6, 8>>, "left", 1, NoneT),
      ScrollEvent(3, 0, <<0, 0>>, <<0, 1>>, NoneT) }

KeyboardAlphabet ==
    { KeyboardEvent(0, 1, "press", "a"),
      KeyboardEvent(3, 2, "release", "a"),
      KeyboardEvent(4, 0, "release", "a"),
      KeyboardEvent(1, 0, "release", "b"),
      WriteEvent(5, 0, <<"a">>, NoneT),
      WriteEvent(10, 1, <<"b", "c">>, 25),
      WriteEvent(45, 0, <<"d">>, NoneT),
      WriteEvent(46, 0, <<"e">>, NoneT),
      StateSnapshotEvent(2, 1, <<1, 1>>) }

SnapshotAlphabet ==
    { StateSnapshotEvent(0, 1, <<1, 1>>),
      StateSnapshotEvent(1, 2, <<1, 2>>),
      StateSnapshotEvent(2, 3, <<1, 3>>),
      MouseButtonEvent(1, 0, <<1, 1>>, "release", "left"),
      KeyboardEvent(2, 0, "press", "alt") }

ScrollAlphabet ==
    { ScrollEvent(0, 0, <<1, 1>>, <<0 - 1, 0 - 1>>, NoneT),
      ScrollEvent(10, 0, <<1, 1>>, <<1, 1>>, NoneT),
      ScrollEvent(20, 1, <<4, 5>>, <<0, 2>>, 70),
      ScrollEvent(130, 0, <<1, 1>>, <<0, 1>>, NoneT),
      ScrollEvent(140, 0, <<1, 7>>, <<2, 0>>, NoneT),
      KeyboardEvent(5, 0, "press", "alt") }

PipelineAlphabet ==
    { MouseButtonEvent(0, 1, <<0, 0>>, "press", "left"),
      MouseButtonEvent(4, 2, <<3, 4>>, "release", "left"),
      MouseButtonEvent(6, 0, <<0, 0>>, "click", "left"),
      ClickEvent(10, 0, <<0, 0>>, "left", 1, NoneT),
      StateSnapshotEvent(7, 1, <<1, 1>>) }

\* The calls made: run_simplifiers with its default pass list and with the
\* five sequence passes of it, each pass alone with its default thresholds,
\* and merge_consecutive_events with merger lists of zero, one and two rules.
Configurations ==
    { [simplifiers |-> ALL_SIMPLIFIERS,
       alphabet |-> PipelineAlphabet, maxlen |-> MaxPipelineLen],
      [simplifiers |-> SubSeq(ALL_SIMPLIFIERS, 1, 5),
       alphabet |-> PipelineAlphabet, maxlen |-> MaxPipelineLen],
      [simplifiers |-> <<drop_consecutive_state_snapshots>>,
       alphabet |-> SnapshotAlphabet, maxlen |-> MaxLen],
      [simplifiers |-> <<merge_consecutive_events(<<>>)>>,
       alphabet |-> SnapshotAlphabet, maxlen |-> MaxLen],
      [simplifiers |-> <<ALL_SIMPLIFIERS[2]>>,
       alphabet |-> MouseAlphabet, maxlen |-> MaxLen],
      [simplifiers |-> <<ALL_SIMPLIFIERS[3]>>,
       alphabet |-> MouseAlphabet, maxlen |-> MaxLen],
      [simplifiers |->
          <<merge_consecutive_events(
              ALL_SIMPLIFIERS[2].mergers \o ALL_SIMPLIFIERS[3].mergers)>>,
       alphabet |-> MouseAlphabet, maxlen |-> MaxLen],
      [simplifiers |-> <<ALL_SIMPLIFIERS[4]>>,
       alphabet |-> KeyboardAlphabet, maxlen |-> MaxLen],
      [simplifiers |-> <<ALL_SIMPLIFIERS[5]>>,
       alphabet |-> KeyboardAlphabet, maxlen |-> MaxLen],
      [simplifiers |->
          <<merge_consecutive_events(
              <<Merger("merge_consecutive_scroll_events", ScrollMaxSeconds,
                       DefaultMaxPixels, FALSE)>>)>>,
       alphabet |-> ScrollAlphabet, maxlen |-> MaxLen],
      [simplifiers |->
          <<merge_consecutive_events(
              <<Merger("merge_consecutive_scroll_events", ScrollMaxSeconds,
                       DefaultMaxPixels, TRUE)>>)>>,
       alphabet |-> ScrollAlphabet, maxlen |-> MaxLen] }

RECURSIVE Construct(_, _)
Construct(h, vs) ==
    IF vs = <<>> THEN h ELSE Construct(New(h, Head(vs)).heap, Tail(vs))

Identity(n) == [k \in 1..n |-> {k}]

Init ==
    \E c \in Configurations :
        \E s \in SeqsUpTo(c.alphabet, c.maxlen) :
            /\ simplifiers = c.simplifiers
            /\ input = s
            /\ heap = Construct(EmptyHeap, s)
            /\ events = [ref |-> 0, items |-> [k \in 1..Len(s) |-> k]]
            /\ pidx = 1
            /\ pc = "run"
            /\ final_events = <<>>
            /\ i = 0
            /\ j = 0
            /\ calls = <<>>
            /\ ncalls = 0
            /\ nmerges = 0
            /\ src = Identity(Len(s))
            /\ err = ""

----------------------------------------------------------------------------
(* run_simplifiers and merge_consecutive_events, step by step *)

\* `events = simplifier(events)` where the simplifier takes two events: the
\* call lacks the argument second_event and raises TypeError.
SimplifierRaises ==
    /\ pc = "run"
    /\ pidx <= Len(simplifiers)
    /\ ~ simplifiers[pidx].pass
    /\ pc' = "raised"
    /\ err' = "TypeError"
    /\ UNCHANGED <<simplifiers, input, heap, events, pidx, final_events, i, j,
                   calls, ncalls, nmerges, src>>

\* A pass over fewer than two events returns the Events object it was given.
PassReturnsInput ==
    /\ pc = "run"
    /\ pidx <= Len(simplifiers)
    /\ simplifiers[pidx].pass
    /\ TrivialInput(events.items)
    /\ pidx' = pidx + 1
    /\ src' = Identity(Len(events.items))
    /\ calls' = <<>>
    /\ UNCHANGED <<simplifiers, input, heap, events, pc, final_events, i, j,
                   ncalls, nmerges, err>>

\* `final_events = [events[0]]`, and the loop starts at events[1].
PassBegins ==
    /\ pc = "run"
    /\ pidx <= Len(simplifiers)
    /\ simplifiers[pidx].pass
    /\ ~ TrivialInput(events.items)
    /\ final_events' = <<events.items[1]>>
    /\ i' = 2
    /\ j' = 1
    /\ pc' = "fold"
    /\ src' = <<{1}>>
    /\ calls' = <<>>
    /\ UNCHANGED <<simplifiers, input, heap, events, pidx, ncalls, nmerges,
                   err>>

\* One iteration of `for merger in event_mergers`: the merger is called on
\* final_events[-1] and event; a single returned event replaces
\* final_events[-1] and ends the inner loop.
CallMerger ==
    /\ pc = "fold"
    /\ i <= Len(events.items)
    /\ j <= Len(simplifiers[pidx].mergers)
    /\ LET merger == MergerAt(simplifiers[pidx].mergers, j)
           last == AccumulatorLast(final_events)
           a == final_events[last]
           b == events.items[i]
           r == CallMergerFunction(merger, heap, a, b)
           call == [merger |-> merger, first |-> a, second |-> b,
                    before |-> <<Value(heap, a), Value(heap, b)>>,
                    ids |-> r.result,
                    result |-> Values(r.heap, r.result)]
       IN  /\ heap' = r.heap
           /\ calls' = IF j = 1 THEN <<call>> ELSE Append(calls, call)
           /\ ncalls' = ncalls + 1
           /\ IF IsMerged(r.result)
              THEN /\ final_events' = ReplaceLast(final_events, r.result[1])
                   /\ src' = [src EXCEPT ![last] = @ \cup {i}]
                   /\ nmerges' = nmerges + 1
                   /\ i' = i + 1
                   /\ j' = 1
              ELSE /\ j' = j + 1
                   /\ UNCHANGED <<final_events, src, nmerges, i>>
    /\ UNCHANGED <<simplifiers, input, events, pidx, pc, err>>

\* `if event is not None: final_events.append(event)`: no merger merged.
AppendUnmerged ==
    /\ pc = "fold"
    /\ i <= Len(events.items)
    /\ j > Len(simplifiers[pidx].mergers)
    /\ final_events' = AppendEvent(final_events, events.items[i])
    /\ src' = Append(src, {i})
    /\ i' = i + 1
    /\ j' = 1
    /\ UNCHANGED <<simplifiers, input, heap, events, pidx, pc, calls, ncalls,
                   nmerges, err>>

\* `return Events.from_iterable(final_events)`, assigned to `events`.
PassReturns ==
    /\ pc = "fold"
    /\ i > Len(events.items)
    /\ events' = Events_from_iterable(final_events, pidx)
    /\ pidx' = pidx + 1
    /\ pc' = "run"
    /\ UNCHANGED <<simplifiers, input, heap, final_events, i, j, calls,
                   ncalls, nmerges, src, err>>

\* `return events` of run_simplifiers.
RunReturns ==
    /\ pc = "run"
    /\ pidx > Len(simplifiers)
    /\ pc' = "done"
    /\ UNCHANGED <<simplifiers, input, heap, events, pidx, final_events, i, j,
                   calls, ncalls, nmerges, src, err>>

Next ==
    \/ SimplifierRaises
    \/ PassReturnsInput
    \/ PassBegins
    \/ CallMerger
    \/ AppendUnmerged
    \/ PassReturns
    \/ RunReturns

Spec == Init /\ [][Next]_vars

----------------------------------------------------------------------------
(* A pass applied to its own output: run_simplifiers with a list that      *)
(* holds one of the five passes twice, with its default thresholds.        *)

ClickAlphabet ==
    { MouseButtonEvent(6, 0, <<0, 0>>, "click", "left"),
      MouseButtonEvent(7, 0, <<0, 0>>, "click", "right"),
      ClickEvent(12, 1, <<3, 4>>, "left", 2, 14),
      ClickEvent(21, 0, <<6, 8>>, "left", 1, NoneT),
      ClickEvent(22, 0, <<0, 5>>, "left", 1, NoneT),
      ClickEvent(23, 0, <<3, 6>>, "left", 1, NoneT),
      ScrollEvent(13, 0, <<0, 0>>, <<0, 1>>, NoneT) }

Twice(simplifier, alphabet) ==
    [simplifiers |-> <<simplifier, simplifier>>, alphabet |-> alphabet,
     maxlen |-> MaxLen]

TwiceConfigurations ==
    { Twice(ALL_SIMPLIFIERS[1], SnapshotAlphabet),
      Twice(ALL_SIMPLIFIERS[2], MouseAlphabet),
      Twice(ALL_SIMPLIFIERS[3], ClickAlphabet),
      Twice(ALL_SIMPLIFIERS[4], KeyboardAlphabet),
      Twice(ALL_SIMPLIFIERS[5], KeyboardAlphabet) }

InitTwice ==
    \E c \in TwiceConfigurations :
        \E s \in SeqsUpTo(c.alphabet, c.maxlen) :
            /\ simplifiers = c.simplifiers
            /\ input = s
            /\ heap = Construct(EmptyHeap, s)
            /\ events = [ref |-> 0, items |-> [k \in 1..Len(s) |-> k]]
            /\ pidx = 1
            /\ pc = "run"
            /\ final_events = <<>>
            /\ i = 0
            /\ j = 0
            /\ calls = <<>>
            /\ ncalls = 0
            /\ nmerges = 0
            /\ src = Identity(Len(s))
            /\ err = ""

NextTwice ==
    \/ PassReturnsInput
    \/ PassBegins
    \/ CallMerger
    \/ AppendUnmerged
    \/ PassReturns
    \/ RunReturns

SpecTwice == InitTwice /\ [][NextTwice]_vars

----------------------------------------------------------------------------
(* update_with called directly: `self.update_with(other_event)` on two     *)
(* events of the same class, with every combination of timestamps and      *)
(* last_timestamps up to MaxTime, last_timestamp earlier than timestamp    *)
(* included, and called up to MaxUpdates times with the same argument.     *)
(* Object 1 is `self`, object 2 is `other_event`.                          *)

Stamps == {[timestamp |-> t, last_timestamp |-> l] :
              t \in 0..MaxTime, l \in {NoneT} \cup 0..MaxTime}

UpdatePairs ==
    {<<ClickEvent(a.timestamp, 1, <<0, 0>>, "left", 1, a.last_timestamp),
       ClickEvent(b.timestamp, 2, <<3, 4>>, "left", 2, b.last_timestamp)>> :
        a \in Stamps, b \in Stamps}
    \cup
    {<<ScrollEvent(a.timestamp, 1, <<0, 0>>, <<0 - 2, 1>>, a.last_timestamp),
       ScrollEvent(b.timestamp, 2, <<3, 4>>, <<1, 1>>, b.last_timestamp)>> :
        a \in Stamps, b \in Stamps}
    \cup
    {<<WriteEvent(a.timestamp, 1, <<"a">>, a.last_timestamp),
       WriteEvent(b.timestamp, 2, <<"b", "c">>, b.last_timestamp)>> :
        a \in Stamps, b \in Stamps}

InitUpdate ==
    \E s \in UpdatePairs :
        /\ simplifiers = <<>>
        /\ input = s
        /\ heap = Construct(EmptyHeap, s)
        /\ events = [ref |-> 0, items |-> <<1, 2>>]
        /\ pidx = 1
        /\ pc = "update"
        /\ final_events = <<>>
        /\ i = 0
        /\ j = 0
        /\ calls = <<>>
        /\ ncalls = 0
        /\ nmerges = 0
        /\ src = <<>>
        /\ err = ""

ClickUpdate ==
    /\ pc = "update"
    /\ ncalls < MaxUpdates
    /\ IsClickEvent(heap.obj[1])
    /\ heap' = ClickEvent_update_with(heap, 1, 2)
    /\ ncalls' = ncalls + 1
    /\ UNCHANGED <<simplifiers, input, events, pidx, pc, final_events, i, j,
                   calls, nmerges, src, err>>

ScrollUpdate ==
    /\ pc = "update"
    /\ ncalls < MaxUpdates
    /\ IsScrollEvent(heap.obj[1])
    /\ heap' = ScrollEvent_update_with(heap, 1, 2)
    /\ ncalls' = ncalls + 1
    /\ UNCHANGED <<simplifiers, input, events, pidx, pc, final_events, i, j,
                   calls, nmerges, src, err>>

WriteUpdate ==
    /\ pc = "update"
    /\ ncalls < MaxUpdates
    /\ IsWriteEvent(heap.obj[1])
    /\ heap' = WriteEvent_update_with(heap, 1, 2)
    /\ ncalls' = ncalls + 1
    /\ UNCHANGED <<simplifiers, input, events, pidx, pc, final_events, i, j,
                   calls, nmerges, src, err>>

NextUpdate ==
    \/ ClickUpdate
    \/ ScrollUpdate
    \/ WriteUpdate

SpecUpdate == InitUpdate /\ [][NextUpdate]_vars

----------------------------------------------------------------------------
(* The constructors and helpers of events.py called directly, in any       *)
(* order: MouseButtonEvent(...) and ClickEvent(...) with valid and invalid *)
(* arguments, ClickEvent.from_mouse_button_event on any mouse-button event *)
(* made so far, and update_with on any two Clicks made so far.  `calls`    *)
(* holds the last call: its operation, its arguments (object ids or the    *)
(* constructor's arguments), the object it returned (0 for none) and       *)
(* whether it raised.                                                      *)

\* MouseButtonEvent.action_is_valid_value
ActionIsValidValue(action) == action \in {"press", "release", "click"}

\* Variant: zero is accepted.
IsNonNegativeInt(n) == n >= 0

\* `n_clicks: PositiveInt`
IsPositiveInt(n) == n > 0

Raised(op, args) ==
    [op |-> op, args |-> args, result |-> 0, raised |-> TRUE]

Returned(op, args, id) ==
    [op |-> op, args |-> args, result |-> id, raised |-> FALSE]

InitEvents ==
    /\ simplifiers = <<>>
    /\ input = <<>>
    /\ heap = EmptyHeap
    /\ events = [ref |-> 0, items |-> <<>>]
    /\ pidx = 1
    /\ pc = "events"
    /\ final_events = <<>>
    /\ i = 0
    /\ j = 0
    /\ calls = <<>>
    /\ ncalls = 0
    /\ nmerges = 0
    /\ src = <<>>
    /\ err = ""

EventsCall == pc = "events" /\ ncalls < MaxCalls

EventsFrame ==
    UNCHANGED <<simplifiers, input, events, pidx, pc, final_events, i, j,
                nmerges, src>>

\* MouseButtonEvent(timestamp=..., location=..., action=..., button=...)
ConstructMouseButtonEvent ==
    /\ EventsCall
    /\ \E t \in 0..1, action \in {"press", "release", "click", "drag"} :
          LET args == <<t, action>>
              r == New(heap, MouseButtonEvent(t, 1, <<1, 2>>, action, "left"))
          IN  IF ActionIsValidValue(action) /\ Len(heap.obj) < MaxObjects
              THEN /\ heap' = r.heap
                   /\ calls' = <<Returned("MouseButtonEvent", args, r.id)>>
                   /\ err' = ""
              ELSE /\ ~ ActionIsValidValue(action)
                   /\ heap' = heap
                   /\ calls' = <<Raised("MouseButtonEvent", args)>>
                   /\ err' = "ValueError"
    /\ ncalls' = ncalls + 1
    /\ EventsFrame

\* ClickEvent(timestamp=..., location=..., button=..., n_clicks=...,
\* last_timestamp=...)
ConstructClickEvent ==
    /\ EventsCall
    /\ \E t \in 0..1, n \in (0 - 1)..2, last \in {NoneT, 2} :
          LET args == <<t, n, last>>
              r == New(heap, ClickEvent(t, NoShot, <<3, 4>>, "left", n, last))
          IN  IF IsPositiveInt(n) /\ Len(heap.obj) < MaxObjects
              THEN /\ heap' = r.heap
                   /\ calls' = <<Returned("ClickEvent", args, r.id)>>
                   /\ err' = ""
              ELSE /\ ~ IsPositiveInt(n)
                   /\ heap' = heap
                   /\ calls' = <<Raised("ClickEvent", args)>>
                   /\ err' = "ValueError"
    /\ ncalls' = ncalls + 1
    /\ EventsFrame

\* ClickEvent.from_mouse_button_event(mouse_button_event)
FromMouseButtonEvent ==
    /\ EventsCall
    /\ Len(heap.obj) < MaxObjects
    /\ \E id \in 1..Len(heap.obj) :
          /\ IsMouseButtonEvent(heap.obj[id])
          /\ LET r == ClickEvent_from_mouse_button_event(heap, id)
             IN  /\ heap' = r.heap
                 /\ calls' = <<Returned("from_mouse_button_event", <<id>>, r.id)>>
    /\ err' = ""
    /\ ncalls' = ncalls + 1
    /\ EventsFrame

\* self.update_with(other_event) on two Clicks, which may be the same one
UpdateWith ==
    /\ EventsCall
    /\ \E self \in 1..Len(heap.obj), other \in 1..Len(heap.obj) :
          /\ IsClickEvent(heap.obj[self])
          /\ IsClickEvent(heap.obj[other])
          /\ heap' = ClickEvent_update_with(heap, self, other)
          /\ calls' = <<Returned("update_with", <<self, other>>, 0)>>
    /\ err' = ""
    /\ ncalls' = ncalls + 1
    /\ EventsFrame

NextEvents ==
    \/ ConstructMouseButtonEvent
    \/ ConstructClickEvent
    \/ FromMouseButtonEvent
    \/ UpdateWith

SpecEvents == InitEvents /\ [][NextEvents]_vars

----------------------------------------------------------------------------
(* Vocabulary of the properties *)

\* The end of an event: its last_timestamp if it has one, else its timestamp.
EndOf(e) == IF e.last_timestamp # NoneT THEN e.last_timestamp ELSE e.timestamp

\* Of two events in argument order, the chronologically earlier and later
\* one; the order of the arguments decides between equal timestamps.
EarlierOf(a, b) == IF a.timestamp > b.timestamp THEN b ELSE a
LaterOf(a, b) == IF a.timestamp > b.timestamp THEN a ELSE b

GapOf(a, b) == LaterOf(a, b).timestamp - EndOf(EarlierOf(a, b))

NearOf(a, b, max_pixels) ==
    DistanceSquared(a.location, b.location) <= max_pixels * max_pixels

CallMerged(c) == Len(c.result) = 1

IsInterval(S) == S # {} /\ S = SetMin(S)..SetMax(S)

\* The events the running pass was given, as values.
PassInput == Values(heap, events.items)

RuleOfPass ==
    IF Len(simplifiers[pidx].mergers) = 1
    THEN simplifiers[pidx].mergers[1].rule ELSE "none"

----------------------------------------------------------------------------
(* C1: merge_consecutive_events compares every input event after the first *)
(* with the last element of the accumulator only.  Each accumulator        *)
(* position therefore stands for a run of adjacent input events, the runs  *)
(* follow one another in input order, a merger is always called on         *)
(* (final_events[-1], event), and a step of the fold changes no position   *)
(* before the last, nor takes an event out of the run it was merged into.  *)

AdjacentRunsOnly ==
    pc = "fold" =>
        /\ Len(src) = Len(final_events)
        /\ \A p \in 1..Len(src) : IsInterval(src[p])
        /\ SetMin(src[1]) = 1
        /\ \A p \in 1..(Len(src) - 1) : SetMin(src[p + 1]) = SetMax(src[p]) + 1
        /\ SetMax(src[Len(src)]) = i - 1

FoldStep ==
    (pc = "fold" /\ pc' = "fold") =>
        /\ Len(final_events') >= Len(final_events)
        /\ \A p \in 1..(Len(final_events) - 1) :
              /\ final_events'[p] = final_events[p]
              /\ Value(heap', final_events[p]) = Value(heap, final_events[p])
              /\ src'[p] = src[p]
        /\ src[Len(final_events)] \subseteq src'[Len(final_events)]
        /\ ncalls' # ncalls =>
              /\ Last(calls').first = final_events[Len(final_events)]
              /\ Last(calls').second = events.items[i]

C1_OnlyLastAccumulated == [] AdjacentRunsOnly /\ [][FoldStep]_vars

\* An event that is itself the result of a merge has merged again.
C1_Witness ==
    /\ pc = "fold"
    /\ \E p \in 1..Len(src) : Cardinality(src[p]) >= 3

----------------------------------------------------------------------------
(* C2: for the pair being compared, the mergers are called in list order,  *)
(* all on that same pair, and none is called after one that returned a     *)
(* single event.                                                           *)

C2_MergersInListOrder ==
    pc = "fold" =>
        /\ Len(calls) <= Len(simplifiers[pidx].mergers)
        /\ \A k \in 1..Len(calls) :
              /\ calls[k].merger = simplifiers[pidx].mergers[k]
              /\ calls[k].first = calls[1].first
              /\ calls[k].second = calls[1].second
              /\ k < Len(calls) => ~ CallMerged(calls[k])

\* The first merger of a list of two declined the pair and the second
\* merged it.
C2_Witness ==
    /\ pc = "fold"
    /\ Len(simplifiers[pidx].mergers) = 2
    /\ Len(calls) = 2
    /\ CallMerged(calls[2])

----------------------------------------------------------------------------
(* C3: on zero or one event, merge_consecutive_events returns the Events   *)
(* object it was given and calls no merger.                                *)

C3_TrivialInputReturned ==
    Len(input) < 2 =>
        /\ events = [ref |-> 0, items |-> [k \in 1..Len(input) |-> k]]
        /\ ncalls = 0
        /\ pc # "fold"

C3_Witness ==
    /\ pc = "done"
    /\ Len(input) = 1
    /\ simplifiers[1].mergers # <<>>

----------------------------------------------------------------------------
(* C4: as long as no merger has returned a single event, the accumulator   *)
(* is the prefix of the input handled so far and the sequence handed from  *)
(* pass to pass is the input sequence: same events, same order.            *)

C4_NoMergeNoChange ==
    nmerges = 0 =>
        /\ events.items = [k \in 1..Len(input) |-> k]
        /\ Values(heap, events.items) = input
        /\ pc = "fold" => final_events = SubSeq(events.items, 1, i - 1)

C4_Witness ==
    /\ pc = "done"
    /\ nmerges = 0
    /\ ncalls > 0
    /\ Len(input) >= 2
    /\ events.ref # 0

----------------------------------------------------------------------------
(* C5: no input event is ever modified: at every point of every pass the   *)
(* object of each input event has the value it was constructed with.       *)

C5_InputsUnmodified ==
    \A k \in 1..Len(input) : Value(heap, k) = input[k]

\* A multi-click merge of two ClickEvent objects has taken place.
C5_Witness ==
    /\ calls # <<>>
    /\ Last(calls).merger.rule = "merge_consecutive_mouse_clicks_to_multi_click"
    /\ CallMerged(Last(calls))
    /\ IsClickEvent(Last(calls).before[1])
    /\ IsClickEvent(Last(calls).before[2])

----------------------------------------------------------------------------
(* C6: run_simplifiers never raises for a sequence of well-formed events.  *)
(* The default pass list ends with the pairwise scroll merger, which       *)
(* cannot be called on a sequence: the statement fails for every input.    *)

C6_NeverRaises == pc # "raised"

----------------------------------------------------------------------------
(* C7: run_simplifiers with the default passes turns a press, its release  *)
(* and two further clicks of the same button within the multi-click window *)
(* into exactly one Click with n_clicks = 3.                               *)

PressReleaseClickClick ==
    << MouseButtonEvent(0, 1, <<0, 0>>, "press", "left"),
       MouseButtonEvent(4, 2, <<3, 4>>, "release", "left"),
       MouseButtonEvent(6, 0, <<0, 0>>, "click", "left"),
       ClickEvent(10, 0, <<0, 0>>, "left", 1, NoneT) >>

TripleClick == << ClickEvent(0, 1, <<0, 0>>, "left", 3, 10) >>

C7_DefaultPipelineTripleClick ==
    (/\ simplifiers = ALL_SIMPLIFIERS
     /\ input = PressReleaseClickClick
     /\ pidx > 5
     /\ pc # "fold")
        => (pc # "raised" /\ (pc = "done" => Values(heap, events.items) = TripleClick))

\* The five sequence passes of the default list, in their order, do produce
\* the triple click.
FivePassesTripleClick ==
    (/\ simplifiers = SubSeq(ALL_SIMPLIFIERS, 1, 5)
     /\ input = PressReleaseClickClick
     /\ pc = "done")
        => Values(heap, events.items) = TripleClick

----------------------------------------------------------------------------
(* C8: the press-then-release rule returns a single event exactly when     *)
(* both events are mouse-button events of one button, the earlier a press  *)
(* and the later a release, at most max_seconds after the press and at     *)
(* most max_pixels away; the single event is a Click with the press's      *)
(* location, button, timestamp and screenshot, n_clicks = 1 and no         *)
(* last_timestamp.  Otherwise the merger returns the two events, and the   *)
(* pass keeps every event that is not part of such an adjacent pair.       *)

PressThenRelease(a, b, max_seconds, max_pixels) ==
    /\ IsMouseButtonEvent(a)
    /\ IsMouseButtonEvent(b)
    /\ a.button = b.button
    /\ EarlierOf(a, b).action = "press"
    /\ LaterOf(a, b).action = "release"
    /\ GapOf(a, b) <= max_seconds
    /\ NearOf(a, b, max_pixels)

ClickOfPress(e) ==
    ClickEvent(e.timestamp, e.screenshot, e.location, e.button, 1, NoneT)

C8_PressReleaseToClick ==
    /\ \A k \in 1..Len(calls) :
          LET c == calls[k]
              a == c.before[1]
              b == c.before[2]
          IN  c.merger.rule
                  = "merge_consecutive_mouse_press_then_release_to_click" =>
                /\ CallMerged(c) <=>
                      PressThenRelease(a, b, c.merger.max_seconds,
                                       c.merger.max_pixels)
                /\ CallMerged(c) => c.result = <<ClickOfPress(EarlierOf(a, b))>>
                /\ ~ CallMerged(c) =>
                      /\ Len(c.result) = 2
                      /\ {c.result[1], c.result[2]} = {a, b}
    /\ (pc = "fold"
        /\ RuleOfPass = "merge_consecutive_mouse_press_then_release_to_click") =>
          \A p \in 1..Len(src) :
              LET lo == SetMin(src[p])
              IN  /\ Cardinality(src[p]) <= 2
                  /\ Cardinality(src[p]) = 1 =>
                        Value(heap, final_events[p]) = PassInput[lo]
                  /\ Cardinality(src[p]) = 2 =>
                        /\ PressThenRelease(
                              PassInput[lo], PassInput[lo + 1],
                              simplifiers[pidx].mergers[1].max_seconds,
                              simplifiers[pidx].mergers[1].max_pixels)
                        /\ Value(heap, final_events[p]) =
                              ClickOfPress(EarlierOf(PassInput[lo],
                                                     PassInput[lo + 1]))

\* A press and a release exactly max_seconds and max_pixels apart have been
\* merged into a click.
C8_Witness ==
    /\ calls # <<>>
    /\ Last(calls).merger.rule
          = "merge_consecutive_mouse_press_then_release_to_click"
    /\ CallMerged(Last(calls))
    /\ GapOf(Last(calls).before[1], Last(calls).before[2])
          = Last(calls).merger.max_seconds
    /\ DistanceSquared(Last(calls).before[1].location,
                       Last(calls).before[2].location)
          = Last(calls).merger.max_pixels * Last(calls).merger.max_pixels

----------------------------------------------------------------------------
(* C9: in the multi-click pass, an accumulated event that stands for a run *)
(* of two or more input events is a Click whose n_clicks is the sum of the *)
(* clicks of the run (a mouse-button click counting one), whose timestamp  *)
(* is the earliest timestamp of the run and whose last_timestamp is the    *)
(* latest end of an event of the run.                                      *)

NClicks(e) == IF IsClickEvent(e) THEN e.n_clicks ELSE 1

C9_MultiClickSums ==
    (pc = "fold"
     /\ RuleOfPass = "merge_consecutive_mouse_clicks_to_multi_click") =>
        \A p \in 1..Len(src) :
            Cardinality(src[p]) >= 2 =>
                LET v == Value(heap, final_events[p])
                    run == src[p]
                IN  /\ IsClickEvent(v)
                    /\ v.action = "click"
                    /\ \A k \in run : PassInput[k].action = "click"
                    /\ v.n_clicks =
                          SetSum(run, [k \in run |-> NClicks(PassInput[k])])
                    /\ v.timestamp =
                          SetMin({PassInput[k].timestamp : k \in run})
                    /\ v.last_timestamp =
                          SetMax({EndOf(PassInput[k]) : k \in run})

\* Three click events, one of them a multi-click already and one a plain
\* mouse-button click, have become one Click.
C9_Witness ==
    /\ pc = "fold"
    /\ RuleOfPass = "merge_consecutive_mouse_clicks_to_multi_click"
    /\ \E p \in 1..Len(src) :
          /\ Cardinality(src[p]) = 3
          /\ \E k \in src[p] : NClicks(PassInput[k]) > 1
          /\ \E k \in src[p] : ~ IsClickEvent(PassInput[k])

----------------------------------------------------------------------------
(* C10: the click, write and scroll mergers measure the time gap from the  *)
(* end of the earlier event (which may be an accumulated one) to the start *)
(* of the later one: with the rule's other conditions met, the pair merges *)
(* exactly when that gap is at most max_seconds.                           *)

OtherConditions(c) ==
    LET a == c.before[1]
        b == c.before[2]
    IN  CASE c.merger.rule = "merge_consecutive_mouse_clicks_to_multi_click" ->
                /\ IsMouseButtonEvent(a) /\ IsMouseButtonEvent(b)
                /\ a.button = b.button
                /\ a.action = "click" /\ b.action = "click"
                /\ NearOf(a, b, c.merger.max_pixels)
          [] c.merger.rule = "merge_consecutive_write_events_1" ->
                IsWriteEvent(a) /\ IsWriteEvent(b)
          [] c.merger.rule = "merge_consecutive_scroll_events" ->
                /\ IsScrollEvent(a) /\ IsScrollEvent(b)
                /\ NearOf(a, b, c.merger.max_pixels)
                /\ \/ c.merger.merge_opposite_directions
                   \/ \A x \in 1..2 :
                         \/ a.scroll[x] = 0
                         \/ b.scroll[x] = 0
                         \/ (a.scroll[x] > 0) = (b.scroll[x] > 0)
          [] OTHER -> FALSE

C10_GapFromEndOfFirst ==
    \A k \in 1..Len(calls) :
        OtherConditions(calls[k]) =>
            (CallMerged(calls[k]) <=>
                GapOf(calls[k].before[1], calls[k].before[2])
                    <= calls[k].merger.max_seconds)

\* An accumulated event has merged with an event that starts more than
\* max_seconds after the accumulated event started.
C10_Witness ==
    /\ pc = "fold"
    /\ calls # <<>>
    /\ OtherConditions(Last(calls))
    /\ CallMerged(Last(calls))
    /\ Cardinality(src[Len(src)]) >= 3
    /\ LaterOf(Last(calls).before[1], Last(calls).before[2]).timestamp
          - EarlierOf(Last(calls).before[1], Last(calls).before[2]).timestamp
          > Last(calls).merger.max_seconds

----------------------------------------------------------------------------
(* C11: the time and distance thresholds are inclusive.  With the other    *)
(* conditions of its rule met, a pair merges exactly when its gap is at    *)
(* most max_seconds and, for the rules with a distance test, its distance  *)
(* at most max_pixels: a gap or a distance equal to the threshold merges,  *)
(* one tick or one pixel-square more does not.                             *)

HasDistanceTest(rule) ==
    rule \in {"merge_consecutive_mouse_press_then_release_to_click",
              "merge_consecutive_mouse_clicks_to_multi_click",
              "merge_consecutive_scroll_events"}

NonThresholdConditions(c) ==
    LET a == c.before[1]
        b == c.before[2]
        r == c.merger.rule
    IN  CASE r = "merge_consecutive_mouse_press_then_release_to_click" ->
                /\ IsMouseButtonEvent(a) /\ IsMouseButtonEvent(b)
                /\ a.button = b.button
                /\ EarlierOf(a, b).action = "press"
                /\ LaterOf(a, b).action = "release"
          [] r = "merge_consecutive_mouse_clicks_to_multi_click" ->
                /\ IsMouseButtonEvent(a) /\ IsMouseButtonEvent(b)
                /\ a.button = b.button
                /\ a.action = "click" /\ b.action = "click"
          [] r = "merge_consecutive_key_press_then_release_to_write" ->
                /\ IsKeyboardEvent(a) /\ IsKeyboardEvent(b)
                /\ a.key = b.key
                /\ EarlierOf(a, b).action = "press"
                /\ LaterOf(a, b).action = "release"
          [] r = "merge_consecutive_write_events_1" ->
                IsWriteEvent(a) /\ IsWriteEvent(b)
          [] r = "merge_consecutive_scroll_events" ->
                /\ IsScrollEvent(a) /\ IsScrollEvent(b)
                /\ \/ c.merger.merge_opposite_directions
                   \/ \A x \in 1..2 :
                         \/ a.scroll[x] = 0
                         \/ b.scroll[x] = 0
                         \/ (a.scroll[x] > 0) = (b.scroll[x] > 0)
          [] OTHER -> FALSE

C11_ThresholdsInclusive ==
    \A k \in 1..Len(calls) :
        LET c == calls[k]
        IN  NonThresholdConditions(c) =>
              (CallMerged(c) <=>
                  /\ GapOf(c.before[1], c.before[2]) <= c.merger.max_seconds
                  /\ HasDistanceTest(c.merger.rule) =>
                        DistanceSquared(c.before[1].location,
                                        c.before[2].location)
                            <= c.merger.max_pixels * c.merger.max_pixels)

\* A press and a release one tick more than max_seconds apart, close enough
\* in space, have not been merged.
C11_Witness ==
    /\ calls # <<>>
    /\ Last(calls).merger.rule
          = "merge_consecutive_mouse_press_then_release_to_click"
    /\ NonThresholdConditions(Last(calls))
    /\ ~ CallMerged(Last(calls))
    /\ GapOf(Last(calls).before[1], Last(calls).before[2])
          = Last(calls).merger.max_seconds + 1
    /\ NearOf(Last(calls).before[1], Last(calls).before[2],
              Last(calls).merger.max_pixels)

\* A press and a release within max_seconds and just beyond max_pixels
\* (squared distance max_pixels^2 + 1) have not been merged.
C11_JustTooFar ==
    /\ calls # <<>>
    /\ NonThresholdConditions(Last(calls))
    /\ ~ CallMerged(Last(calls))
    /\ GapOf(Last(calls).before[1], Last(calls).before[2])
          <= Last(calls).merger.max_seconds
    /\ DistanceSquared(Last(calls).before[1].location,
                       Last(calls).before[2].location)
          = Last(calls).merger.max_pixels * Last(calls).merger.max_pixels + 1

----------------------------------------------------------------------------
(* C12: for every merger and every pair it merges, the pair passed with    *)
(* its two events exchanged gives the same merged result.                  *)

\* The values a merger returns when called on two newly constructed events.
PairResult(m, a, b) ==
    LET h == Construct(EmptyHeap, <<a, b>>)
        r == CallMergerFunction(m, h, 1, 2)
    IN  Values(r.heap, r.result)

C12_SameResultInReverseOrder ==
    \A k \in 1..Len(calls) :
        LET c == calls[k]
        IN  (CallMerged(c) /\ c.before[1].timestamp # c.before[2].timestamp) =>
                PairResult(c.merger, c.before[2], c.before[1]) = c.result

\* The mergers that exchange their arguments when out of order do give the
\* same result in both orders; the snapshot rule is the one that does not.
SwappingRulesCommute ==
    \A k \in 1..Len(calls) :
        LET c == calls[k]
        IN  (/\ CallMerged(c)
             /\ c.before[1].timestamp # c.before[2].timestamp
             /\ c.merger.rule # "drop_consecutive_state_snapshots_1") =>
                PairResult(c.merger, c.before[2], c.before[1]) = c.result

----------------------------------------------------------------------------
(* C13: every merger returns its events in chronological order, the        *)
(* earlier timestamp first, also when it does not merge and also when the  *)
(* events are of classes the rule does not apply to.                       *)

C13_ReturnedChronologically ==
    \A k \in 1..Len(calls) :
        Len(calls[k].result) = 2 =>
            calls[k].result[1].timestamp <= calls[k].result[2].timestamp

\* Where both events are of the class of a rule that exchanges its
\* arguments, the unmerged pair does come back in chronological order.
ApplicableClass(rule, e) ==
    CASE rule = "drop_consecutive_state_snapshots_1" -> IsStateSnapshotEvent(e)
      [] rule = "merge_consecutive_mouse_press_then_release_to_click" ->
            IsMouseButtonEvent(e)
      [] rule = "merge_consecutive_mouse_clicks_to_multi_click" ->
            IsMouseButtonEvent(e)
      [] rule = "merge_consecutive_key_press_then_release_to_write" ->
            IsKeyboardEvent(e)
      [] rule = "merge_consecutive_write_events_1" -> IsWriteEvent(e)
      [] rule = "merge_consecutive_scroll_events" -> IsScrollEvent(e)

SameClassReturnedChronologically ==
    \A k \in 1..Len(calls) :
        LET c == calls[k]
        IN  (/\ Len(c.result) = 2
             /\ ApplicableClass(c.merger.rule, c.before[1])
             /\ ApplicableClass(c.merger.rule, c.before[2])) =>
                c.result[1].timestamp <= c.result[2].timestamp

----------------------------------------------------------------------------
(* C14: a merger called on a pair in which at least one event is not of    *)
(* the class its rule applies to returns two events, the very two it was   *)
(* given, unchanged: a mismatch is a "no merge", never an error.           *)

C14_MismatchIsNoMerge ==
    \A k \in 1..Len(calls) :
        LET c == calls[k]
        IN  (\/ ~ ApplicableClass(c.merger.rule, c.before[1])
             \/ ~ ApplicableClass(c.merger.rule, c.before[2])) =>
                /\ Len(c.ids) = 2
                /\ {c.ids[1], c.ids[2]} = {c.first, c.second}
                /\ {c.result[1], c.result[2]} = {c.before[1], c.before[2]}

\* The snapshot rule has been called on a snapshot and an event of another
\* class.
C14_Witness ==
    /\ calls # <<>>
    /\ Last(calls).merger.rule = "drop_consecutive_state_snapshots_1"
    /\ IsStateSnapshotEvent(Last(calls).before[2])
    /\ ~ IsStateSnapshotEvent(Last(calls).before[1])
    /\ Len(Last(calls).result) = 2

----------------------------------------------------------------------------
(* C15: drop_consecutive_state_snapshots replaces every maximal run of     *)
(* consecutive snapshots by the last snapshot of the run and keeps every   *)
(* other event, in the original order: each accumulated event is the last  *)
(* input event of its run, a run of two or more holds snapshots only, and  *)
(* no two neighbouring runs meet in two snapshots.                         *)

C15_SnapshotRunsCollapsed ==
    (pc = "fold" /\ RuleOfPass = "drop_consecutive_state_snapshots_1") =>
        /\ \A p \in 1..Len(src) :
              /\ final_events[p] = events.items[SetMax(src[p])]
              /\ Value(heap, final_events[p]) = PassInput[SetMax(src[p])]
              /\ Cardinality(src[p]) >= 2 =>
                    \A k \in src[p] : IsStateSnapshotEvent(PassInput[k])
        /\ \A p \in 1..(Len(src) - 1) :
              ~ (/\ IsStateSnapshotEvent(PassInput[SetMax(src[p])])
                 /\ IsStateSnapshotEvent(PassInput[SetMin(src[p + 1])]))

\* The pass has handled its whole input, which held a run of snapshots next
\* to an event that is kept.
C15_Witness ==
    /\ pc = "fold"
    /\ RuleOfPass = "drop_consecutive_state_snapshots_1"
    /\ i > Len(events.items)
    /\ Len(src) >= 2
    /\ \E p \in 1..Len(src) : Cardinality(src[p]) >= 2

----------------------------------------------------------------------------
(* C16: the snapshot rule, given two snapshots, keeps only the one with    *)
(* the greater timestamp, in whichever order the two are passed.           *)

C16_KeepsLaterSnapshot ==
    \A k \in 1..Len(calls) :
        LET c == calls[k]
        IN  (/\ c.merger.rule = "drop_consecutive_state_snapshots_1"
             /\ IsStateSnapshotEvent(c.before[1])
             /\ IsStateSnapshotEvent(c.before[2])) =>
                c.result = <<LaterOf(c.before[1], c.before[2])>>

\* What the rule does: the second argument is kept, whatever the timestamps.
SnapshotRuleKeepsSecondArgument ==
    \A k \in 1..Len(calls) :
        LET c == calls[k]
        IN  (/\ c.merger.rule = "drop_consecutive_state_snapshots_1"
             /\ IsStateSnapshotEvent(c.before[1])
             /\ IsStateSnapshotEvent(c.before[2])) =>
                c.ids = <<c.second>>

----------------------------------------------------------------------------
(* C17: merge_consecutive_key_press_then_release_to_write returns one      *)
(* event exactly when both events are keyboard events of the same key, the *)
(* chronologically first a press and the second a release at most          *)
(* max_seconds later; the result is a Write of that one key with the       *)
(* timestamp and screenshot of the press.  In every other case both events *)
(* are returned as they are, and in the pass an event is only ever merged  *)
(* with its neighbour in the sequence.                                     *)

KeyPressThenRelease(c) ==
    LET f == EarlierOf(c.before[1], c.before[2])
        s == LaterOf(c.before[1], c.before[2])
    IN  /\ IsKeyboardEvent(f) /\ IsKeyboardEvent(s)
        /\ f.key = s.key
        /\ f.action = "press"
        /\ s.action = "release"
        /\ s.timestamp - f.timestamp <= c.merger.max_seconds

C17_KeyPressReleaseToWrite ==
    /\ \A k \in 1..Len(calls) :
          LET c == calls[k]
              f == EarlierOf(c.before[1], c.before[2])
          IN  c.merger.rule = "merge_consecutive_key_press_then_release_to_write" =>
                /\ CallMerged(c) <=> KeyPressThenRelease(c)
                /\ CallMerged(c) =>
                      c.result[1] = WriteEvent(f.timestamp, f.screenshot,
                                               <<f.key>>, NoneT)
                /\ ~ CallMerged(c) =>
                      /\ Len(c.ids) = 2
                      /\ {c.ids[1], c.ids[2]} = {c.first, c.second}
                      /\ {c.result[1], c.result[2]} = {c.before[1], c.before[2]}
    /\ (/\ pc = "fold"
        /\ RuleOfPass = "merge_consecutive_key_press_then_release_to_write") =>
          \A p \in 1..Len(src) :
              /\ Cardinality(src[p]) <= 2
              /\ src[p] = SetMin(src[p])..SetMax(src[p])
              /\ Cardinality(src[p]) = 1 =>
                    /\ final_events[p] = events.items[SetMin(src[p])]
                    /\ Value(heap, final_events[p]) = PassInput[SetMin(src[p])]
              /\ Cardinality(src[p]) = 2 =>
                    /\ IsWriteEvent(Value(heap, final_events[p]))
                    /\ Len(Value(heap, final_events[p]).keys) = 1
                    /\ \A k \in src[p] :
                          /\ IsKeyboardEvent(PassInput[k])
                          /\ PassInput[k].key =
                                Value(heap, final_events[p]).keys[1]

\* A press and its release, exactly max_seconds apart, have become a Write,
\* and the pass holds another event besides.
C17_Witness ==
    /\ pc = "fold"
    /\ RuleOfPass = "merge_consecutive_key_press_then_release_to_write"
    /\ Len(src) >= 2
    /\ Len(calls) = 1
    /\ CallMerged(calls[1])
    /\ GapOf(calls[1].before[1], calls[1].before[2]) = calls[1].merger.max_seconds

\* A press and a release of the same key one tick too far apart stay two
\* events.
C17_TooLate ==
    /\ Len(calls) = 1
    /\ calls[1].merger.rule = "merge_consecutive_key_press_then_release_to_write"
    /\ ~ CallMerged(calls[1])
    /\ GapOf(calls[1].before[1], calls[1].before[2]) = calls[1].merger.max_seconds + 1
    /\ calls[1].before[1].action = "press"
    /\ calls[1].before[2].action = "release"
    /\ calls[1].before[1].key = calls[1].before[2].key

----------------------------------------------------------------------------
(* C18: merge_consecutive_write_events merges two adjacent Writes exactly  *)
(* when the chronologically second starts at most max_seconds after the    *)
(* end of the first; the merged Write holds the keys of the first followed *)
(* by the keys of the second.  A Write and a non-Write are never merged,   *)
(* so Writes separated by another event stay apart, and a run of merged    *)
(* Writes holds as many keys as its members together.                      *)

RECURSIVE KeysInRun(_, _)
KeysInRun(evs, S) ==
    IF S = {} THEN 0
    ELSE Len(evs[SetMax(S)].keys) + KeysInRun(evs, S \ {SetMax(S)})

C18_WritesConcatenated ==
    /\ \A k \in 1..Len(calls) :
          LET c == calls[k]
              f == EarlierOf(c.before[1], c.before[2])
              s == LaterOf(c.before[1], c.before[2])
          IN  c.merger.rule = "merge_consecutive_write_events_1" =>
                /\ CallMerged(c) <=>
                      /\ IsWriteEvent(f) /\ IsWriteEvent(s)
                      /\ s.timestamp - EndOf(f) <= c.merger.max_seconds
                /\ CallMerged(c) =>
                      /\ IsWriteEvent(c.result[1])
                      /\ c.result[1].keys = f.keys \o s.keys
    /\ (pc = "fold" /\ RuleOfPass = "merge_consecutive_write_events_1") =>
          \A p \in 1..Len(src) :
              /\ Cardinality(src[p]) >= 2 =>
                    \A k \in src[p] : IsWriteEvent(PassInput[k])
              /\ Len(Value(heap, final_events[p]).keys) =
                    KeysInRun(PassInput, src[p])

\* Two Writes exactly max_seconds apart have merged, the later one having
\* come first in the sequence, and both had keys.
C18_Witness ==
    /\ pc = "fold"
    /\ RuleOfPass = "merge_consecutive_write_events_1"
    /\ Len(calls) = 1
    /\ CallMerged(calls[1])
    /\ calls[1].before[1].timestamp > calls[1].before[2].timestamp
    /\ GapOf(calls[1].before[1], calls[1].before[2]) = calls[1].merger.max_seconds
    /\ Len(calls[1].result[1].keys) = 3

\* Two Writes one tick beyond max_seconds stay two events.
C18_TooLate ==
    /\ Len(calls) = 1
    /\ calls[1].merger.rule = "merge_consecutive_write_events_1"
    /\ IsWriteEvent(calls[1].before[1]) /\ IsWriteEvent(calls[1].before[2])
    /\ GapOf(calls[1].before[1], calls[1].before[2]) = calls[1].merger.max_seconds + 1
    /\ ~ CallMerged(calls[1])

\* Three Writes have become one.
C18_ManyWrites ==
    /\ pc = "fold"
    /\ RuleOfPass = "merge_consecutive_write_events_1"
    /\ \E p \in 1..Len(src) : Cardinality(src[p]) = 3

----------------------------------------------------------------------------
(* C19: two scroll events within max_seconds and max_pixels are merged by  *)
(* merge_consecutive_scroll_events exactly when merge_opposite_directions  *)
(* is set or both axes are compatible, an axis being compatible when one   *)
(* of its two deltas is zero or both have the same sign.  The merged       *)
(* scroll is the component-wise sum of the two.                            *)

AxisCompatible(a, b, x) ==
    \/ a.scroll[x] = 0
    \/ b.scroll[x] = 0
    \/ (a.scroll[x] > 0 /\ b.scroll[x] > 0)
    \/ (a.scroll[x] < 0 /\ b.scroll[x] < 0)

ScrollsWithinThresholds(c) ==
    /\ IsScrollEvent(c.before[1]) /\ IsScrollEvent(c.before[2])
    /\ GapOf(c.before[1], c.before[2]) <= c.merger.max_seconds
    /\ NearOf(c.before[1], c.before[2], c.merger.max_pixels)

C19_ScrollDirections ==
    \A k \in 1..Len(calls) :
        LET c == calls[k]
            a == c.before[1]
            b == c.before[2]
        IN  c.merger.rule = "merge_consecutive_scroll_events" =>
              /\ CallMerged(c) => ScrollsWithinThresholds(c)
              /\ ScrollsWithinThresholds(c) =>
                    (CallMerged(c) <=>
                        \/ c.merger.merge_opposite_directions
                        \/ (AxisCompatible(a, b, 1) /\ AxisCompatible(a, b, 2)))
              /\ CallMerged(c) =>
                    /\ IsScrollEvent(c.result[1])
                    /\ c.result[1].scroll = <<a.scroll[1] + b.scroll[1],
                                              a.scroll[2] + b.scroll[2]>>

\* With merge_opposite_directions set, scrolls of opposite directions on
\* both axes have merged and cancelled.
C19_Witness ==
    /\ Len(calls) = 1
    /\ calls[1].merger.rule = "merge_consecutive_scroll_events"
    /\ calls[1].merger.merge_opposite_directions
    /\ ~ AxisCompatible(calls[1].before[1], calls[1].before[2], 1)
    /\ ~ AxisCompatible(calls[1].before[1], calls[1].before[2], 2)
    /\ CallMerged(calls[1])
    /\ calls[1].result[1].scroll = <<0, 0>>

\* Without it, one incompatible axis has prevented the merge of two scrolls
\* whose other axis is compatible.
C19_OneAxisIncompatible ==
    /\ Len(calls) = 1
    /\ calls[1].merger.rule = "merge_consecutive_scroll_events"
    /\ ~ calls[1].merger.merge_opposite_directions
    /\ ScrollsWithinThresholds(calls[1])
    /\ AxisCompatible(calls[1].before[1], calls[1].before[2], 1)
    /\ ~ AxisCompatible(calls[1].before[1], calls[1].before[2], 2)
    /\ ~ CallMerged(calls[1])

\* Scrolls compatible on both axes have merged without it.
C19_CompatibleMerged ==
    /\ Len(calls) = 1
    /\ calls[1].merger.rule = "merge_consecutive_scroll_events"
    /\ ~ calls[1].merger.merge_opposite_directions
    /\ CallMerged(calls[1])
    /\ calls[1].result[1].scroll[2] >= 3

----------------------------------------------------------------------------
(* C20: update_with on Click, Scroll and Write events combines timestamps  *)
(* in the same way: after `self.update_with(other)`, self.timestamp is the *)
(* smaller of the two timestamps and self.last_timestamp is the greatest   *)
(* of the two timestamps and of those of the two last_timestamps that are  *)
(* present, whether other lies after, before or within self.               *)

PresentTimes(s, o) ==
    {s.timestamp, o.timestamp} \cup ({s.last_timestamp, o.last_timestamp} \ {NoneT})

UpdateCombinesTimes ==
    (pc = "update" /\ ncalls' = ncalls + 1) =>
        LET s == heap.obj[1]
            o == heap.obj[2]
            r == heap'.obj[1]
        IN  /\ r.timestamp \in {s.timestamp, o.timestamp}
            /\ r.timestamp <= s.timestamp
            /\ r.timestamp <= o.timestamp
            /\ r.last_timestamp \in PresentTimes(s, o)
            /\ \A t \in PresentTimes(s, o) : t <= r.last_timestamp
            /\ r.cls = s.cls

C20_SecondBefore ==
    /\ pc = "update"
    /\ ncalls = 1
    /\ input[1].last_timestamp = NoneT
    /\ input[2].last_timestamp = NoneT
    /\ input[2].timestamp < input[1].timestamp
    /\ heap.obj[1].timestamp = input[2].timestamp
    /\ heap.obj[1].last_timestamp = input[1].timestamp

\* The second event lay wholly after the first.
C20_SecondAfter ==
    /\ pc = "update"
    /\ ncalls = 1
    /\ input[1].last_timestamp # NoneT
    /\ input[1].last_timestamp < input[2].timestamp
    /\ input[2].last_timestamp = NoneT
    /\ heap.obj[1].timestamp = input[1].timestamp
    /\ heap.obj[1].last_timestamp = input[2].timestamp

----------------------------------------------------------------------------
(* C21: whenever a merger rule merges a pair into one event, that event's  *)
(* timestamp is the smaller of the two original timestamps and its         *)
(* last_timestamp is the greatest of both original timestamps and both     *)
(* original ends (last_timestamp_or_first).                                *)

EarliestOf(c) == Min2(c.before[1].timestamp, c.before[2].timestamp)

LatestOf(c) ==
    SetMax({c.before[1].timestamp, c.before[2].timestamp,
            EndOf(c.before[1]), EndOf(c.before[2])})

C21_MergedTimestamps ==
    \A k \in 1..Len(calls) :
        CallMerged(calls[k]) =>
            /\ calls[k].result[1].timestamp = EarliestOf(calls[k])
            /\ calls[k].result[1].last_timestamp = LatestOf(calls[k])

CombiningRules ==
    {"merge_consecutive_mouse_clicks_to_multi_click",
     "merge_consecutive_write_events_1",
     "merge_consecutive_scroll_events"}

ConvertingRules ==
    {"merge_consecutive_mouse_press_then_release_to_click",
     "merge_consecutive_key_press_then_release_to_write"}

\* As amended: the three rules that combine two events give the merged
\* event both ends; the two rules that convert a press and its release give
\* it the press's timestamp, the earlier one, and no last_timestamp.
C21_MergedTimestampsPerRule ==
    \A k \in 1..Len(calls) :
        LET c == calls[k]
        IN  CallMerged(c) =>
              /\ c.merger.rule \in CombiningRules =>
                    /\ c.result[1].timestamp = EarliestOf(c)
                    /\ c.result[1].last_timestamp = LatestOf(c)
              /\ c.merger.rule \in ConvertingRules =>
                    /\ c.result[1].timestamp = EarliestOf(c)
                    /\ c.result[1].last_timestamp = NoneT

\* Two Writes have merged, the later one first in the sequence, and the end
\* of the merged Write is the last_timestamp the later one had.
C21_Witness ==
    /\ Len(calls) = 1
    /\ calls[1].merger.rule = "merge_consecutive_write_events_1"
    /\ CallMerged(calls[1])
    /\ calls[1].before[1].timestamp > calls[1].before[2].timestamp
    /\ calls[1].before[1].last_timestamp # NoneT
    /\ calls[1].result[1].last_timestamp = calls[1].before[1].last_timestamp
    /\ calls[1].result[1].timestamp = calls[1].before[2].timestamp

\* A press and its release have become a Click without last_timestamp.
C21_ConvertedHasNoEnd ==
    /\ Len(calls) = 1
    /\ calls[1].merger.rule = "merge_consecutive_mouse_press_then_release_to_click"
    /\ CallMerged(calls[1])
    /\ calls[1].before[2].timestamp > calls[1].before[1].timestamp
    /\ calls[1].result[1].last_timestamp = NoneT

----------------------------------------------------------------------------
(* C22: Click.update_with, Scroll.update_with and Write.update_with are    *)
(* pure: a call makes a new merged event and changes neither the event it  *)
(* is called on nor the other event.                                       *)

UpdateCalled == pc = "update" /\ ncalls' = ncalls + 1

UpdateIsPure ==
    UpdateCalled =>
        /\ Len(heap'.obj) = Len(heap.obj) + 1
        /\ Value(heap', 1) = Value(heap, 1)
        /\ Value(heap', 2) = Value(heap, 2)

C22_UpdatePure == [][UpdateIsPure]_vars

\* As amended: a call makes no new event; it stores the combined n_clicks,
\* scroll or keys in the event it is called on, and leaves the other event,
\* a separate event with a key list of its own, as it was.
UpdateIsInPlace ==
    UpdateCalled =>
        LET s == Value(heap, 1)
            o == Value(heap, 2)
            r == Value(heap', 1)
        IN  /\ Len(heap'.obj) = Len(heap.obj)
            /\ Len(heap'.keys) = Len(heap.keys)
            /\ Value(heap', 2) = o
            /\ IsClickEvent(s) => r.n_clicks = s.n_clicks + o.n_clicks
            /\ IsScrollEvent(s) =>
                  r.scroll = <<s.scroll[1] + o.scroll[1],
                               s.scroll[2] + o.scroll[2]>>
            /\ IsWriteEvent(s) => r.keys = s.keys \o o.keys
            /\ [r EXCEPT !.n_clicks = 0, !.scroll = <<0, 0>>, !.keys = <<>>,
                         !.timestamp = 0, !.last_timestamp = 0]
                 = [s EXCEPT !.n_clicks = 0, !.scroll = <<0, 0>>, !.keys = <<>>,
                             !.timestamp = 0, !.last_timestamp = 0]

C22_UpdateInPlace == [][UpdateIsInPlace]_vars

\* After one call the first event differs from what was constructed and the
\* other does not.
C22_Witness ==
    /\ pc = "update"
    /\ ncalls = 1
    /\ Value(heap, 1) # input[1]
    /\ Value(heap, 2) = input[2]
    /\ Len(heap.obj) = 2

----------------------------------------------------------------------------
(* C23: Click.from_mouse_button_event requires the given event's action to *)
(* be click: on a mouse-button event whose action is press or release it   *)
(* fails with a validation error and produces no Click.                    *)

LastCallIs(op) == Len(calls) = 1 /\ calls[1].op = op

\* from_mouse_button_event was just called on an event whose action is not
\* click.
ConvertedOtherAction ==
    /\ pc = "events"
    /\ LastCallIs("from_mouse_button_event")
    /\ Value(heap, calls[1].args[1]).action \in {"press", "release"}

C23_PressReleaseRejected ==
    ConvertedOtherAction =>
        /\ calls[1].raised
        /\ err # ""
        /\ calls[1].result = 0

\* As amended: on a press or release event it raises nothing and returns a
\* new Click, of one click, whose action is click; the given event is left
\* as it was.
C23_PressReleaseAccepted ==
    ConvertedOtherAction =>
        /\ ~ calls[1].raised
        /\ err = ""
        /\ calls[1].result = Len(heap.obj)
        /\ calls[1].result # calls[1].args[1]
        /\ IsClickEvent(Value(heap, calls[1].result))
        /\ Value(heap, calls[1].result).action = "click"
        /\ Value(heap, calls[1].result).n_clicks = 1
        /\ Value(heap, calls[1].args[1]).cls = "MouseButtonEvent"

C23_Witness ==
    /\ ConvertedOtherAction
    /\ Value(heap, calls[1].args[1]).action = "release"
    /\ IsClickEvent(Value(heap, calls[1].result))

----------------------------------------------------------------------------
(* C24: Click.from_mouse_button_event on a mouse-button event of action    *)
(* click, press or release returns a Click whose timestamp, screenshot,    *)
(* device, location and button are those of the given event and whose      *)
(* action is click; on a Click it returns an equal copy, n_clicks and      *)
(* last_timestamp included.                                                *)

C24_ClickFromMouseButtonEvent ==
    (pc = "events" /\ LastCallIs("from_mouse_button_event")) =>
        LET given == Value(heap, calls[1].args[1])
            click == Value(heap, calls[1].result)
        IN  /\ ~ calls[1].raised
            /\ calls[1].result # calls[1].args[1]
            /\ IsClickEvent(click)
            /\ click.timestamp = given.timestamp
            /\ click.screenshot = given.screenshot
            /\ click.device = given.device
            /\ click.location = given.location
            /\ click.button = given.button
            /\ click.action = "click"
            /\ IsClickEvent(given) => click = given

\* A Click of two clicks with a last_timestamp has been copied.
C24_Witness ==
    /\ pc = "events"
    /\ LastCallIs("from_mouse_button_event")
    /\ IsClickEvent(Value(heap, calls[1].args[1]))
    /\ Value(heap, calls[1].args[1]).n_clicks = 2
    /\ Value(heap, calls[1].args[1]).last_timestamp # NoneT
    /\ Value(heap, calls[1].result) = Value(heap, calls[1].args[1])

\* A press event with a screenshot has been made a Click.
C24_FromPress ==
    /\ pc = "events"
    /\ LastCallIs("from_mouse_button_event")
    /\ Value(heap, calls[1].args[1]).action = "press"
    /\ Value(heap, calls[1].result).screenshot # NoShot

----------------------------------------------------------------------------
(* C25: n_clicks is at least 1 for every Click at all times: ClickEvent    *)
(* with n_clicks of 0 or less raises an error and makes no event, every    *)
(* positive n_clicks is accepted, and no sequence of constructions,        *)
(* conversions and updates leaves a Click with n_clicks below 1.           *)

AllClicksPositive ==
    \A id \in 1..Len(heap.obj) :
        IsClickEvent(heap.obj[id]) => heap.obj[id].n_clicks >= 1

C25_NClicksAtLeastOne ==
    pc = "events" =>
        /\ AllClicksPositive
        /\ LastCallIs("ClickEvent") =>
              /\ calls[1].raised <=> calls[1].args[2] <= 0
              /\ calls[1].raised => (err = "ValueError" /\ calls[1].result = 0)
              /\ ~ calls[1].raised =>
                    /\ IsClickEvent(heap.obj[calls[1].result])
                    /\ heap.obj[calls[1].result].n_clicks = calls[1].args[2]

\* ClickEvent(n_clicks=0) has just raised, a Click of two or more clicks
\* having been made before.
C25_Witness ==
    /\ pc = "events"
    /\ LastCallIs("ClickEvent")
    /\ calls[1].args[2] = 0
    /\ calls[1].raised
    /\ \E id \in 1..Len(heap.obj) :
          IsClickEvent(heap.obj[id]) /\ heap.obj[id].n_clicks >= 2

\* A Click has been updated with itself and holds four clicks.
C25_Doubled ==
    /\ pc = "events"
    /\ LastCallIs("update_with")
    /\ calls[1].args[1] = calls[1].args[2]
    /\ heap.obj[calls[1].args[1]].n_clicks = 4

\* The same holds of every Click in the passes of simplify.py.
ClicksPositiveInPasses == pc \in {"run", "fold", "done", "raised"} => AllClicksPositive

----------------------------------------------------------------------------
(* C26: in a chain of click or scroll merges the max_pixels test of a step *)
(* is between the two events compared at that step, not relative to the    *)
(* first event of the merged run: when an event follows a merged run and   *)
(* everything but the distance allows the merge, it is merged exactly when *)
(* it lies within max_pixels of the event of the run that precedes it.     *)

DistanceRules ==
    {"merge_consecutive_mouse_clicks_to_multi_click",
     "merge_consecutive_scroll_events"}

\* The position in the pass's input of the object id.
PositionOf(id) == CHOOSE k \in 1..Len(events.items) : events.items[k] = id

\* The call compared a merged run, which is not an object of the input,
\* with the input event that follows it.
ChainStep(c) ==
    /\ pc = "fold"
    /\ RuleOfPass \in DistanceRules
    /\ c.merger.rule = RuleOfPass
    /\ \A k \in 1..Len(events.items) : events.items[k] # c.first
    /\ NonThresholdConditions(c)
    /\ GapOf(c.before[1], c.before[2]) <= c.merger.max_seconds

C26_DistanceToPrecedingEvent ==
    \A k \in 1..Len(calls) :
        LET c == calls[k]
        IN  ChainStep(c) =>
              (CallMerged(c) <=>
                  NearOf(PassInput[PositionOf(c.second) - 1], c.before[2],
                         c.merger.max_pixels))

\* What the code does: the merged run carries the location of its
\* chronologically first event and the distance is taken from there.
RunKeepsFirstLocation ==
    \A k \in 1..Len(calls) :
        LET c == calls[k]
        IN  /\ ChainStep(c) =>
                (CallMerged(c) <=>
                    NearOf(c.before[1], c.before[2], c.merger.max_pixels))
            /\ (c.merger.rule \in DistanceRules /\ CallMerged(c)) =>
                c.result[1].location =
                    EarlierOf(c.before[1], c.before[2]).location


\* A third click within max_pixels of the second and in time is left
\* unmerged, being too far from the first.
C26_DriftingClickLeftOut ==
    /\ Len(calls) = 1
    /\ ChainStep(calls[1])
    /\ calls[1].merger.rule = "merge_consecutive_mouse_clicks_to_multi_click"
    /\ NearOf(PassInput[PositionOf(calls[1].second) - 1], calls[1].before[2],
              calls[1].merger.max_pixels)
    /\ ~ CallMerged(calls[1])

----------------------------------------------------------------------------
(* C27: convert_mouse_clicks_to_multi_click conserves the number of clicks *)
(* of every button: the clicks of the events accumulated so far and of the *)
(* events still to come add up to the clicks of the input, a mouse-button  *)
(* event of action click counting one, whichever events were merged.       *)

Buttons == {"left", "middle", "right"}

ClicksOf(e, button) ==
    IF IsMouseButtonEvent(e) /\ e.action = "click" /\ e.button = button
    THEN (IF IsClickEvent(e) THEN e.n_clicks ELSE 1)
    ELSE 0

RECURSIVE ClicksIn(_, _)
ClicksIn(evs, button) ==
    IF evs = <<>> THEN 0
    ELSE ClicksOf(Head(evs), button) + ClicksIn(Tail(evs), button)

C27_ClicksConserved ==
    (pc = "fold" /\ RuleOfPass = "merge_consecutive_mouse_clicks_to_multi_click") =>
        \A button \in Buttons :
            ClicksIn(Values(heap, final_events), button)
              + ClicksIn(SubSeq(PassInput, i, Len(PassInput)), button)
              = ClicksIn(PassInput, button)

\* The pass is through an input of left and right clicks, has merged, and
\* its result holds three or more left clicks.
C27_Witness ==
    /\ pc = "fold"
    /\ RuleOfPass = "merge_consecutive_mouse_clicks_to_multi_click"
    /\ i > Len(events.items)
    /\ Len(final_events) < Len(events.items)
    /\ ClicksIn(Values(heap, final_events), "right") = 1
    /\ ClicksIn(Values(heap, final_events), "left") >= 3

----------------------------------------------------------------------------
(* C28: on an input whose timestamps do not decrease along the sequence,   *)
(* merge_consecutive_write_events preserves the typed text: the keys of    *)
(* the Writes accumulated so far, followed by the keys of the Writes still *)
(* to come, are the keys of the Writes of the input, in input order.       *)

Chronological(evs) ==
    \A k \in 1..(Len(evs) - 1) : evs[k].timestamp <= evs[k + 1].timestamp

RECURSIVE TypedText(_)
TypedText(evs) ==
    IF evs = <<>> THEN <<>>
    ELSE (IF IsWriteEvent(Head(evs)) THEN Head(evs).keys ELSE <<>>)
            \o TypedText(Tail(evs))

WritePassOver(evs) ==
    /\ pc = "fold"
    /\ RuleOfPass = "merge_consecutive_write_events_1"
    /\ evs = PassInput

C28_TypedTextPreserved ==
    (WritePassOver(PassInput) /\ Chronological(PassInput)) =>
        TypedText(Values(heap, final_events))
          \o TypedText(SubSeq(PassInput, i, Len(PassInput)))
          = TypedText(PassInput)

\* Three Writes in chronological order have been merged into one that holds
\* the four keys typed.
C28_Witness ==
    /\ WritePassOver(PassInput)
    /\ Chronological(PassInput)
    /\ i > Len(events.items)
    /\ Len(final_events) = 1
    /\ Len(events.items) = 3
    /\ Len(TypedText(Values(heap, final_events))) = 4

\* The same without the condition on the order, which an input out of
\* order violates.
TypedTextPreservedInAnyOrder ==
    WritePassOver(PassInput) =>
        TypedText(Values(heap, final_events))
          \o TypedText(SubSeq(PassInput, i, Len(PassInput)))
          = TypedText(PassInput)

----------------------------------------------------------------------------
(* C29: on an input whose timestamps do not decrease along the sequence,   *)
(* each of the five passes is idempotent: applied to its own output with   *)
(* the same thresholds it returns events equal to that output.             *)

\* The second application of the pass returns: `events` is the output of
\* the first application before the step and that of the second after it.
SecondPassReturns == pidx = 2 /\ pidx' = 3

SecondPassChangesNothing ==
    (SecondPassReturns /\ Chronological(input)) =>
        Values(heap', events'.items) = Values(heap, events.items)

C29_PassesIdempotent == [][SecondPassChangesNothing]_vars

\* Both applications are done on a chronological input; the first merged
\* events and left two or more, which the second compared.
C29_Witness ==
    /\ pc = "done"
    /\ Len(simplifiers) = 2
    /\ simplifiers[1] = simplifiers[2]
    /\ Chronological(input)
    /\ Len(events.items) < Len(input)
    /\ Len(events.items) >= 2
    /\ nmerges >= 1
    /\ ncalls > Len(input) - 1

\* The same without the condition on the order.
SecondPassNeverChanges ==
    SecondPassReturns => Values(heap', events'.items) = Values(heap, events.items)

IdempotentInAnyOrder == [][SecondPassNeverChanges]_vars

----------------------------------------------------------------------------
(* C30: an event that update_with has updated, once or several times, has  *)
(* a last_timestamp, and it is not earlier than its timestamp, also when   *)
(* the last_timestamp of one of the two events was earlier than its        *)
(* timestamp before the call.                                              *)

IllFormed(e) == e.last_timestamp # NoneT /\ e.last_timestamp < e.timestamp

C30_UpdatedEventWellFormed ==
    (pc = "update" /\ ncalls >= 1) =>
        /\ heap.obj[1].last_timestamp # NoneT
        /\ heap.obj[1].last_timestamp >= heap.obj[1].timestamp

\* Both events had a last_timestamp earlier than their timestamp, and the
\* first has been updated twice.
C30_Witness ==
    /\ pc = "update"
    /\ ncalls = 2
    /\ IllFormed(input[1])
    /\ IllFormed(input[2])
    /\ ~ IllFormed(heap.obj[1])

\* The same of the merged events of the passes.
MergedEventsWellFormed ==
    \A k \in 1..Len(calls) :
        (pc = "fold" /\ calls[k].merger.rule \in CombiningRules
            /\ CallMerged(calls[k])) =>
                /\ calls[k].result[1].last_timestamp # NoneT
                /\ ~ IllFormed(calls[k].result[1])

====
